---- MODULE Spec2Model ----
(***************************************************************************)
(* Status normalisation (status_utils.py), the reliability and evidence   *)
(* of an asset (status_v3.py), the merge of the projects' status files     *)
(* (status_aggregator.py) and the validation engine's checks, rule         *)
(* execution, quality gates and report aggregation                         *)
(* (abacus_validation_system.py) of pow3r.build.                           *)
(*                                                                         *)
(* Python values are modelled as follows.                                  *)
(*  - a dict is a function from the set of its keys to its values;         *)
(*  - a status argument is a tagged record: kind "dict" (field d),         *)
(*    kind "str" (field s), kind "none" (None) or kind "other" (any other  *)
(*    value, such as a number);                                            *)
(*  - a float of the status format (completeness, qualityScore) is an      *)
(*    integer number of thousandths;                                       *)
(*  - a score, weight or threshold of the validation engine is an exact    *)
(*    rational [n, d] in lowest terms with d > 0; where the rounding of    *)
(*    the floats matters (the order of a sum) the report's figures are     *)
(*    computed in binary64 arithmetic.                                     *)
(***************************************************************************)
EXTENDS Integers, Sequences, FiniteSets, TLC

VARIABLES
    statusIn,            \* argument of normalize_status
    statusOut,           \* <<normalize_status(statusIn)>> once called, else <<>>
    statusOut2,          \* <<normalize_status(result)>> once called again, else <<>>
    converted,           \* the conversions applied to a status word, in order
    nodes,               \* argument of calculate_overall_status
    overall,             \* <<calculate_overall_status(nodes)>> once called, else <<>>
    assetIn,             \* the asset whose status is normalised
    scans,               \* the asset and its normalised status at each scan so far
    sources,             \* the source configs as they stand in the status files
    all_configs,         \* StatusAggregator.all_configs: the loaded source configs
    unified,             \* the unified configs created so far, in order
    merge_raised,        \* an exception left create_unified_config
    enabled,             \* rule id -> ValidationRule.enabled
    outcomes,            \* rule id -> what the rule's check does on this input
    validation_results,  \* list of ValidationResult
    gate,                \* the QualityGate given to _evaluate_quality_gate
    quality_gate_results,\* list of gate verdicts
    report,              \* <<ValidationReport>> once produced, else <<>>
    raised,              \* an exception left validate_workflow_execution
    execution_data,      \* the report given to a check or to the engine
    payload_size,        \* len(json.dumps(execution_data).encode('utf-8'))
    rule_result,         \* <<ValidationResult>> of the check once run, else <<>>
    pc                   \* position of the run

vars == <<statusIn, statusOut, statusOut2, converted, nodes, overall, assetIn, scans, sources, all_configs, unified, merge_raised, enabled, outcomes, validation_results,
          gate, quality_gate_results, report, raised, execution_data, payload_size,
          rule_result, pc>>

utilsVars == <<statusIn, statusOut, statusOut2, converted, nodes, overall>>
assetVars == <<assetIn, scans>>
mergeVars == <<sources, all_configs, unified, merge_raised>>
statusVars == <<utilsVars, assetVars, mergeVars>>
engineVars == <<enabled, outcomes, validation_results, gate,
                quality_gate_results, report, raised>>
checkVars == <<execution_data, payload_size, rule_result>>

(***************************************************************************)
(* Bounds of the model.                                                    *)
(***************************************************************************)
MaxResults == 2
MaxGateRules == 2
MaxVerdicts == 2
MaxDeviations == 2
MaxConversions == 2
MaxNodes == 4
MaxScans == 2
MaxSources == 2
MaxStatusFiles == 4
MaxMerges == 2
MaxStatusAssets == 2
MaxGraphItems == 3

(***************************************************************************)
(* dict helpers                                                            *)
(***************************************************************************)
EmptyDict == <<>>

\* dict.get(key, default)
Get(d, key, default) == IF key \in DOMAIN d THEN d[key] ELSE default

(***************************************************************************)
(* status_utils.py                                                         *)
(***************************************************************************)
NodeStatus == {"building", "backlogged", "blocked", "burned", "built", "broken"}
LegacyStatus == {"green", "orange", "red", "gray"}

LEGACY_TO_NEW ==
    [green |-> "built", orange |-> "building", red |-> "broken", gray |-> "backlogged"]

\* NEW_TO_LEGACY with blocked sent to the phase of broken
NEW_TO_LEGACY_BlockedAsRed ==
    [built |-> "green", building |-> "orange", broken |-> "red",
     backlogged |-> "gray", blocked |-> "red", burned |-> "gray"]

NEW_TO_LEGACY ==
    [built |-> "green", building |-> "orange", broken |-> "red",
     backlogged |-> "gray", blocked |-> "orange", burned |-> "gray"]

STATUS_PROGRESS ==
    [built |-> 100, building |-> 50, broken |-> 75,
     backlogged |-> 0, blocked |-> 40, burned |-> 0]

convert_legacy_to_new(legacy_status) == Get(LEGACY_TO_NEW, legacy_status, "backlogged")

convert_new_to_legacy(new_status) == Get(NEW_TO_LEGACY, new_status, "gray")

\* int(x) of Python for x = a / b with b > 0: truncation towards zero
IntTrunc(a, b) == IF a >= 0 THEN a \div b ELSE -((-a) \div b)

\* the magnitudes (in thousandths, up to 2.0) whose float product with 100
\* falls just below the whole number it equals exactly: 0.29 * 100 is
\* 28.999999999999996
FloatProductBelow == {290, 570, 580, 1130, 1140, 1150, 1160}

\* int(completeness * 100), completeness in thousandths
CompletenessToProgress(completeness) ==
    LET exact == IntTrunc(completeness * 100, 1000)
    IN  IF completeness \in FloatProductBelow THEN exact - 1
        ELSE IF -completeness \in FloatProductBelow THEN exact + 1
        ELSE exact

\* the mutant of NormalizeNewDict: progress recomputed from the state
NormalizeNewDictRecomputed(d) ==
    [state |-> d["state"],
     progress |-> Get(STATUS_PROGRESS, d["state"], 0),
     quality |-> Get(d, "quality", EmptyDict),
     legacy |-> Get(d, "legacy", [phase |-> convert_new_to_legacy(d["state"])])]

\* normalize_status, branch "already in new dict format"
NormalizeNewDict(d) ==
    [state |-> d["state"],
     progress |-> Get(d, "progress", Get(STATUS_PROGRESS, d["state"], 0)),
     quality |-> Get(d, "quality", EmptyDict),
     legacy |-> Get(d, "legacy", [phase |-> convert_new_to_legacy(d["state"])])]

\* normalize_status, branch "legacy dict format"
NormalizeLegacyDict(d) ==
    LET phase == d["phase"]
        completeness == Get(d, "completeness", 500)
    IN  [state |-> convert_legacy_to_new(phase),
         progress |-> CompletenessToProgress(completeness),
         quality |-> [qualityScore |-> Get(d, "qualityScore", 700),
                      notes |-> Get(d, "notes", "")],
         legacy |-> [phase |-> phase, completeness |-> completeness]]

\* normalize_status, branch "string status"
NormalizeString(s) ==
    IF s \in NodeStatus
    THEN [state |-> s,
          progress |-> Get(STATUS_PROGRESS, s, 0),
          quality |-> EmptyDict,
          legacy |-> [phase |-> convert_new_to_legacy(s)]]
    ELSE [state |-> convert_legacy_to_new(s),
          progress |-> IF s = "green" THEN 100 ELSE IF s = "orange" THEN 50 ELSE 0,
          quality |-> EmptyDict,
          legacy |-> [phase |-> s]]

normalize_status(status) ==
    IF status.kind = "dict" /\ "state" \in DOMAIN status.d
    THEN NormalizeNewDict(status.d)
    ELSE IF status.kind = "dict" /\ "phase" \in DOMAIN status.d
    THEN NormalizeLegacyDict(status.d)
    ELSE IF status.kind = "str"
    THEN NormalizeString(status.s)
    ELSE [state |-> "backlogged", progress |-> 0, quality |-> EmptyDict,
          legacy |-> [phase |-> "gray"]]

AsDict(d) == [kind |-> "dict", d |-> d]
AsStr(s) == [kind |-> "str", s |-> s]

(***************************************************************************)
(* The arguments normalize_status is called with.                          *)
(***************************************************************************)
\* all dicts over the optional keys `opt` on top of the base dict
RECURSIVE WithOptional(_, _)
WithOptional(base, opt) ==
    IF opt = <<>> THEN {base}
    ELSE LET rest == WithOptional(base, Tail(opt))
             key == Head(opt)[1]
             vals == Head(opt)[2]
         IN  rest \cup {[k \in DOMAIN r \cup {key} |->
                            IF k = key THEN v ELSE r[k]] : r \in rest, v \in vals}

QualityValues == {EmptyDict, [qualityScore |-> 850], [qualityScore |-> 900, notes |-> "ok"]}
LegacyValues == {EmptyDict, [phase |-> "green"], [phase |-> "red", completeness |-> 750]}
ProgressValues == {-5, 0, 40, 100, 150}
CompletenessValues == {-200, 0, 290, 500, 750, 756, 1000, 1500}

NewDicts ==
    UNION {WithOptional([state |-> st],
                        << <<"progress", ProgressValues>>,
                           <<"quality", QualityValues>>,
                           <<"legacy", LegacyValues>> >>)
           : st \in {"built", "blocked", "backlogged", "unknown"}}

LegacyDicts ==
    UNION {WithOptional([phase |-> ph],
                        << <<"completeness", CompletenessValues>>,
                           <<"qualityScore", {850}>>,
                           <<"notes", {"n"}>> >>)
           : ph \in LegacyStatus \cup {"purple"}}

OtherDicts == {EmptyDict, [progress |-> 30], [completeness |-> 750]}

StatusInputs ==
    {AsDict(d) : d \in NewDicts \cup LegacyDicts \cup OtherDicts}
    \cup {AsStr(s) : s \in NodeStatus \cup LegacyStatus \cup {"purple", ""}}
    \cup {[kind |-> "none"], [kind |-> "other"]}

(***************************************************************************)
(* status_utils.py: the overall status of a list of nodes                  *)
(***************************************************************************)
Min(a, b) == IF a <= b THEN a ELSE b
Max(a, b) == IF a >= b THEN a ELSE b

\* create_status_info(state, progress) with a given progress and neither
\* quality_score nor notes; completeness progress / 100.0 is in thousandths
create_status_info(state, progress) ==
    [state |-> state,
     progress |-> Max(0, Min(100, progress)),
     quality |-> EmptyDict,
     legacy |-> [phase |-> convert_new_to_legacy(state),
                 completeness |-> progress * 10]]

get_status_state(status) == normalize_status(status).state

get_status_progress(status) == normalize_status(status).progress

\* node.get('status', 'backlogged')
NodeStatusOf(node) == Get(node, "status", AsStr("backlogged"))

\* the loop of calculate_overall_status over nodes[i..]: status_counts and
\* total_progress
RECURSIVE CountNodes(_, _, _, _)
CountNodes(ns, i, status_counts, total_progress) ==
    IF i > Len(ns)
    THEN [status_counts |-> status_counts, total_progress |-> total_progress]
    ELSE LET node_status == NodeStatusOf(ns[i])
             state == get_status_state(node_status)
             progress == get_status_progress(node_status)
         IN  CountNodes(ns, i + 1,
                        [k \in DOMAIN status_counts \cup {state} |->
                            IF k = state THEN Get(status_counts, state, 0) + 1
                            ELSE status_counts[k]],
                        total_progress + progress)

\* a // b of Python for b > 0: the floor
FloorDiv(a, b) == IF a >= 0 THEN a \div b ELSE -(((-a) + b - 1) \div b)

\* round(a / b) of Python for b > 0: the nearest integer, a tie to the even one
Round(a, b) ==
    LET lo == FloorDiv(a, b)
        twice == 2 * (a - lo * b)
    IN  IF twice < b THEN lo
        ELSE IF twice > b THEN lo + 1
        ELSE IF lo % 2 = 0 THEN lo ELSE lo + 1

\* the cascade with the blocked share tested after building
OverallStateBuildingFirst(status_counts, n) ==
    IF Get(status_counts, "broken", 0) > 0 THEN "broken"
    ELSE IF Get(status_counts, "building", 0) > 0 THEN "building"
    ELSE IF Get(status_counts, "blocked", 0) * 10 > n * 3 THEN "blocked"
    ELSE IF Get(status_counts, "built", 0) = n THEN "built"
    ELSE IF Get(status_counts, "backlogged", 0) * 2 > n THEN "backlogged"
    ELSE "building"

\* "determine overall state": count > n * 0.3 is count * 10 > n * 3 and
\* count > n * 0.5 is count * 2 > n
OverallState(status_counts, n) ==
    IF Get(status_counts, "broken", 0) > 0 THEN "broken"
    ELSE IF Get(status_counts, "blocked", 0) * 10 > n * 3 THEN "blocked"
    ELSE IF Get(status_counts, "building", 0) > 0 THEN "building"
    ELSE IF Get(status_counts, "built", 0) = n THEN "built"
    ELSE IF Get(status_counts, "backlogged", 0) * 2 > n THEN "backlogged"
    ELSE "building"

calculate_overall_status(ns) ==
    IF ns = <<>> THEN create_status_info("backlogged", 0)
    ELSE LET c == CountNodes(ns, 1, EmptyDict, 0)
             overall_state == OverallState(c.status_counts, Len(ns))
         IN  [state |-> overall_state,
              progress |-> FloorDiv(c.total_progress, Len(ns)),
              quality |-> EmptyDict,
              legacy |-> [phase |-> convert_new_to_legacy(overall_state)],
              breakdown |-> c.status_counts]

\* the nodes calculate_overall_status is called with: without a status, with
\* a status word, with a status dict of either format
NodeValues ==
    {EmptyDict}
    \cup {[status |-> AsStr(st)] : st \in NodeStatus}
    \cup {[status |-> AsDict([state |-> "built", progress |-> 90])],
          [status |-> AsDict([phase |-> "gray", completeness |-> 756])]}

(***************************************************************************)
(* Exact rationals for scores, weights and thresholds.                     *)
(***************************************************************************)
RECURSIVE GCD(_, _)
GCD(a, b) == IF b = 0 THEN a ELSE GCD(b, a % b)

Abs(a) == IF a < 0 THEN -a ELSE a

\* n / d in lowest terms, d > 0
Rat(n, d) ==
    LET g == GCD(Abs(n), d)
    IN  [n |-> n \div g, d |-> d \div g]

RatAdd(a, b) == Rat(a.n * b.d + b.n * a.d, a.d * b.d)
RatMul(a, b) == Rat(a.n * b.n, a.d * b.d)
\* a / b for b > 0
RatDiv(a, b) == Rat(a.n * b.d, a.d * b.n)
RatLeq(a, b) == a.n * b.d <= b.n * a.d
RatLt(a, b) == a.n * b.d < b.n * a.d
RatGeq(a, b) == RatLeq(b, a)
RatMin(a, b) == IF RatLeq(a, b) THEN a ELSE b
RatMax(a, b) == IF RatLeq(a, b) THEN b ELSE a

Zero == Rat(0, 1)
One == Rat(1, 1)

\* sum(f(x) for x in seq)
RECURSIVE RatSum(_)
RatSum(seq) == IF seq = <<>> THEN Zero ELSE RatAdd(Head(seq), RatSum(Tail(seq)))

(***************************************************************************)
(* status_v3.py: reliability and evidence of an asset. An asset is a dict  *)
(* with the optional keys analytics, metadata, location and status; the    *)
(* counts are integers, centralityScore is a rational, authors is a list.  *)
(***************************************************************************)
\* round(x, 3) of Python
Round3(x) == Rat(Round(x.n * 1000, x.d), 1000)

\* max(0.0, min(x, 1.0))
Clamp01(x) == RatMax(Zero, RatMin(x, One))

\* asset.get('analytics', {}) or {}
AnalyticsOf(asset) == Get(asset, "analytics", EmptyDict)

\* asset.get('metadata', {}) or {}
MetadataOf(asset) == Get(asset, "metadata", EmptyDict)

\* min(float(count) / cap, 1.0)
CappedShare(count, cap) == RatMin(Rat(count, cap), One)

\* compute_reliability with the centrality capped above only
ComputeReliabilityCentralityUncapped(asset) ==
    LET analytics == AnalyticsOf(asset)
        authors == Get(MetadataOf(asset), "authors", <<>>)
        activity_component ==
            RatMul(CappedShare(Get(analytics, "activityLast30Days", 0), 50), Rat(40, 100))
        centrality_component ==
            RatMul(RatMin(Get(analytics, "centralityScore", Zero), One), Rat(25, 100))
        connectivity_component ==
            RatMul(CappedShare(Get(analytics, "connectivity", 0), 20), Rat(20, 100))
        authors_component == RatMul(CappedShare(Len(authors), 5), Rat(15, 100))
    IN  Round3(Clamp01(RatAdd(RatAdd(activity_component, centrality_component),
                              RatAdd(connectivity_component, authors_component))))

compute_reliability(asset) ==
    LET analytics == AnalyticsOf(asset)
        authors == Get(MetadataOf(asset), "authors", <<>>)
        activity_component ==
            RatMul(CappedShare(Get(analytics, "activityLast30Days", 0), 50), Rat(40, 100))
        centrality_component ==
            RatMul(Clamp01(Get(analytics, "centralityScore", Zero)), Rat(25, 100))
        connectivity_component ==
            RatMul(CappedShare(Get(analytics, "connectivity", 0), 20), Rat(20, 100))
        authors_component == RatMul(CappedShare(Len(authors), 5), Rat(15, 100))
    IN  Round3(Clamp01(RatAdd(RatAdd(activity_component, centrality_component),
                              RatAdd(connectivity_component, authors_component))))

\* sep.join(names)
RECURSIVE Join(_, _)
Join(sep, names) ==
    IF names = <<>> THEN ""
    ELSE IF Len(names) = 1 THEN names[1]
    ELSE names[1] \o sep \o Join(sep, Tail(names))

\* one evidence entry
Evidence(type, ref, score, note) ==
    [type |-> type, ref |-> ref, score |-> score, note |-> note]

build_evidence(asset) ==
    LET analytics == AnalyticsOf(asset)
        authors == Get(MetadataOf(asset), "authors", <<>>)
        location == Get(asset, "location", "")
    IN  (IF "activityLast30Days" \in DOMAIN analytics
         THEN <<Evidence("activityLast30Days", location,
                         CappedShare(analytics["activityLast30Days"], 50),
                         "Commit activity over last 30 days")>>
         ELSE <<>>)
        \o (IF "centralityScore" \in DOMAIN analytics
            THEN <<Evidence("centralityScore", location,
                            Clamp01(analytics["centralityScore"]),
                            "Graph centrality within repository network")>>
            ELSE <<>>)
        \o (IF "connectivity" \in DOMAIN analytics
            THEN <<Evidence("connectivity", location,
                            CappedShare(analytics["connectivity"], 20),
                            "Number of directly connected edges")>>
            ELSE <<>>)
        \o (IF authors # <<>>
            THEN <<Evidence("authors", Join(",", authors), CappedShare(Len(authors), 5),
                            "Active contributors")>>
            ELSE <<>>)

\* normalize_asset_status: the normalised status with reliability, and with
\* evidence when there is any
normalize_asset_status(asset) ==
    LET normalized == normalize_status(Get(asset, "status", [kind |-> "none"]))
        reliability == compute_reliability(asset)
        evidences == build_evidence(asset)
        keys == DOMAIN normalized \cup {"reliability"}
                    \cup (IF evidences # <<>> THEN {"evidence"} ELSE {})
    IN  [k \in keys |->
            IF k = "reliability" THEN reliability
            ELSE IF k = "evidence" THEN evidences
            ELSE normalized[k]]

(***************************************************************************)
(* status_aggregator.py: StatusAggregator. A source config is a dict with  *)
(* the optional keys projectName, status, stats, metadata (topics,         *)
(* language), nodes and edges. A status is a tagged record as above; a     *)
(* coordinate is an exact rational (the code computes it in floats).       *)
(* create_unified_config changes the nodes and edges of the loaded configs *)
(* in place: the unified config holds the very dicts of self.all_configs.  *)
(***************************************************************************)
\* the elements of a list
Range(seq) == {seq[i] : i \in DOMAIN seq}

\* d with key k set to v
With(d, k, v) == [x \in DOMAIN d \cup {k} |-> IF x = k THEN v ELSE d[x]]

\* config.get('projectName', f'Project-{idx}'), idx counted from 0
ProjectName(config, idx) == Get(config, "projectName", "Project-" \o ToString(idx))

\* f"project-{idx}"
ProjectId(idx) == "project-" \o ToString(idx)

\* int(n ** 0.5): the largest k with k * k <= n
IntSqrt(n) == CHOOSE k \in 0..n : k * k <= n /\ (k + 1) * (k + 1) > n

\* grid_size = int(len(self.all_configs) ** 0.5) + 1
GridSize(n) == IntSqrt(n) + 1

\* the cell spacing and the half cell of the grid
GridStep == 200
GridHalfStep == 100

\* the factor applied to the coordinates of an embedded node
PositionScale == Rat(3, 10)

\* x = (idx % grid_size) * 200 - (grid_size * 100), for n configs
GridX(idx, n) == (idx % GridSize(n)) * GridStep - GridSize(n) * GridHalfStep

\* z = (idx // grid_size) * 200 - (grid_size * 100)
GridZ(idx, n) == (idx \div GridSize(n)) * GridStep - GridSize(n) * GridHalfStep

\* config.get('status', 'gray')
ConfigStatus(config) == Get(config, "status", AsStr("gray"))

\* "create project node", for config number idx of n
ProjectNode(config, idx, n) ==
    [id |-> ProjectId(idx),
     name |-> ProjectName(config, idx),
     type |-> "service.repository",
     category |-> "Repository",
     description |-> Get(Get(config, "metadata", EmptyDict), "description",
                         ProjectName(config, idx) \o " repository"),
     status |-> ConfigStatus(config),
     fileType |-> "service.repository",
     tags |-> Get(Get(config, "metadata", EmptyDict), "topics", <<>>),
     metadata |-> [nodeId |-> ProjectId(idx),
                   category |-> "Repository",
                   type |-> "service",
                   source |-> Get(config, "source", "unknown"),
                   repositoryPath |-> Get(config, "repositoryPath", ""),
                   branch |-> Get(config, "branch", "main")],
     stats |-> Get(config, "stats", EmptyDict),
     position |-> [x |-> Rat(GridX(idx, n), 1), y |-> Zero, z |-> Rat(GridZ(idx, n), 1)]]

\* node['position'] = {x + pos['x'] * 0.3, pos.get('y', 0), z + pos['z'] * 0.3}
PositionedNode(node, x, z) ==
    LET pos == Get(node, "position", [x |-> Zero, y |-> Zero, z |-> Zero])
    IN  With(node, "position",
             [x |-> RatAdd(Rat(x, 1), RatMul(pos["x"], PositionScale)),
              y |-> Get(pos, "y", Zero),
              z |-> RatAdd(Rat(z, 1), RatMul(pos["z"], PositionScale))])

\* "add component nodes from this config": the node offset from the project
\* at (x, z), the id prefixed, the parent set
ComponentNode(node, project_name, idx, x, z) ==
    With(With(PositionedNode(node, x, z), "id", project_name \o "-" \o node["id"]),
         "metadata", With(node["metadata"], "parent", ProjectId(idx)))

\* pos['x'] or pos['z'] raises KeyError
PositionRaises(node) ==
    "position" \in DOMAIN node
    /\ ("x" \notin DOMAIN node["position"] \/ "z" \notin DOMAIN node["position"])

\* the loop body raises KeyError on this node
NodeRaises(node) ==
    PositionRaises(node) \/ "id" \notin DOMAIN node \/ "metadata" \notin DOMAIN node

\* the node as the loop body leaves it, be it by a KeyError
NodeAsLeft(node, project_name, idx, x, z) ==
    IF PositionRaises(node) THEN node
    ELSE IF "id" \notin DOMAIN node THEN PositionedNode(node, x, z)
    ELSE IF "metadata" \notin DOMAIN node
    THEN With(PositionedNode(node, x, z), "id", project_name \o "-" \o node["id"])
    ELSE ComponentNode(node, project_name, idx, x, z)

\* PrefixedEdge with the target left as it was
PrefixedEdgeSourceOnly(edge, project_name) ==
    With(With(edge, "id", project_name \o "-" \o edge["id"]),
         "from", project_name \o "-" \o edge["from"])

\* "add edges from this config": the id and the node references prefixed
PrefixedEdge(edge, project_name) ==
    With(With(With(edge, "id", project_name \o "-" \o edge["id"]),
              "from", project_name \o "-" \o edge["from"]),
         "to", project_name \o "-" \o edge["to"])

\* the loop body raises KeyError on this edge
EdgeRaises(edge) ==
    "id" \notin DOMAIN edge \/ "from" \notin DOMAIN edge \/ "to" \notin DOMAIN edge

\* the edge as the loop body leaves it, be it by a KeyError
EdgeAsLeft(edge, project_name) ==
    IF "id" \notin DOMAIN edge THEN edge
    ELSE IF "from" \notin DOMAIN edge
    THEN With(edge, "id", project_name \o "-" \o edge["id"])
    ELSE IF "to" \notin DOMAIN edge
    THEN With(With(edge, "id", project_name \o "-" \o edge["id"]),
              "from", project_name \o "-" \o edge["from"])
    ELSE PrefixedEdge(edge, project_name)

\* the position of the first element of the list on which the loop raises,
\* 0 if there is none
FirstRaising(seq, Raises(_)) ==
    IF \E i \in DOMAIN seq : Raises(seq[i])
    THEN CHOOSE i \in DOMAIN seq : Raises(seq[i]) /\ \A j \in 1..(i - 1) : ~Raises(seq[j])
    ELSE 0

\* status_counts[status] raises TypeError: a dict is not hashable
StatusRaises(config) == ConfigStatus(config).kind = "dict"

\* the pass over this config raises
ConfigRaises(config) ==
    \/ StatusRaises(config)
    \/ FirstRaising(Get(config, "nodes", <<>>), NodeRaises) # 0
    \/ FirstRaising(Get(config, "edges", <<>>), EdgeRaises) # 0

\* config number idx of n as the pass over it leaves it: its nodes and edges
\* are changed in place, up to the one that raises
ConfigAsLeft(config, idx, n) ==
    LET project_name == ProjectName(config, idx)
        ns == Get(config, "nodes", <<>>)
        es == Get(config, "edges", <<>>)
        nf == FirstRaising(ns, NodeRaises)
        ef == FirstRaising(es, EdgeRaises)
        ns_left == [i \in DOMAIN ns |->
                      IF nf = 0 \/ i <= nf
                      THEN NodeAsLeft(ns[i], project_name, idx, GridX(idx, n), GridZ(idx, n))
                      ELSE ns[i]]
        es_left == [i \in DOMAIN es |->
                      IF ef = 0 \/ i <= ef THEN EdgeAsLeft(es[i], project_name) ELSE es[i]]
        with_nodes == IF "nodes" \in DOMAIN config THEN With(config, "nodes", ns_left)
                      ELSE config
    IN  IF StatusRaises(config) THEN config
        ELSE IF nf # 0 \/ "edges" \notin DOMAIN config THEN with_nodes
        ELSE With(with_nodes, "edges", es_left)

\* self.all_configs as create_unified_config leaves it
ConfigsAsLeft(configs) ==
    LET cf == FirstRaising(configs, ConfigRaises)
    IN  [i \in DOMAIN configs |->
           IF cf = 0 \/ i <= cf THEN ConfigAsLeft(configs[i], i - 1, Len(configs))
           ELSE configs[i]]

\* the nodes added for the configs idx.. (idx counted from 0)
RECURSIVE AllNodes(_, _)
AllNodes(configs, idx) ==
    IF idx >= Len(configs) THEN <<>>
    ELSE LET config == configs[idx + 1]
             project_name == ProjectName(config, idx)
             ns == Get(config, "nodes", <<>>)
         IN  <<ProjectNode(config, idx, Len(configs))>>
             \o [i \in DOMAIN ns |->
                   ComponentNode(ns[i], project_name, idx,
                                 GridX(idx, Len(configs)), GridZ(idx, Len(configs)))]
             \o AllNodes(configs, idx + 1)

\* status_counts after the loop: the four colours and every status met
StatusCounts(configs) ==
    LET status(i) == ConfigStatus(configs[i]).s
    IN  [s \in {"green", "orange", "red", "gray"} \cup {status(i) : i \in DOMAIN configs} |->
           Cardinality({i \in DOMAIN configs : status(i) = s})]

\* total_commits after the loop, from config i on
RECURSIVE TotalCommits(_, _)
TotalCommits(configs, i) ==
    IF i > Len(configs) THEN 0
    ELSE Get(Get(configs[i], "stats", EmptyDict), "totalCommitsLast30Days", 0)
         + TotalCommits(configs, i + 1)

\* the edges added for the configs idx..
RECURSIVE AllEdges(_, _)
AllEdges(configs, idx) ==
    IF idx >= Len(configs) THEN <<>>
    ELSE LET config == configs[idx + 1]
             project_name == ProjectName(config, idx)
             es == Get(config, "edges", <<>>)
         IN  [i \in DOMAIN es |-> PrefixedEdge(es[i], project_name)]
             \o AllEdges(configs, idx + 1)

\* list(shared_topics)[:2]: the first two in the set's iteration order
FirstTwo(shared_topics, order) ==
    LET listed == SelectSeq(order, LAMBDA t : t \in shared_topics)
    IN  SubSeq(listed, 1, Min(2, Len(listed)))

InterEdge(edge_id, proj1, proj2, label, strength, reason) ==
    [id |-> "inter-edge-" \o ToString(edge_id),
     from |-> proj1["id"],
     to |-> proj2["id"],
     type |-> "relatedTo",
     label |-> label,
     strength |-> strength,
     metadata |-> [edgeId |-> "inter-edge-" \o ToString(edge_id),
                   type |-> "relatedTo",
                   reason |-> reason]]

\* the body of the inner loop for proj1 and proj2: the edges so far, extended
PairEdges(edges, proj1, proj2, order) ==
    LET tags1 == Range(Get(proj1, "tags", <<>>))
        lang1 == Get(Get(proj1, "metadata", EmptyDict), "language", "")
        tags2 == Range(Get(proj2, "tags", <<>>))
        lang2 == Get(Get(proj2, "metadata", EmptyDict), "language", "")
        shared_topics == tags1 \cap tags2
        with_topics ==
            IF shared_topics # {}
            THEN Append(edges,
                        InterEdge(Len(edges), proj1, proj2,
                                  "Shared: " \o Join(", ", FirstTwo(shared_topics, order)),
                                  Rat(3, 10), "shared_topics"))
            ELSE edges
    IN  IF lang1 # "" /\ lang2 # "" /\ lang1 = lang2 /\ shared_topics = {}
        THEN Append(with_topics,
                    InterEdge(Len(with_topics), proj1, proj2,
                              "Same language: " \o lang1, Rat(2, 10), "same_language"))
        ELSE with_topics

\* the two loops from the pair (i, j) on, i < j positions in projects
RECURSIVE InterLoop(_, _, _, _, _)
InterLoop(projects, i, j, edges, order) ==
    IF i > Len(projects) THEN edges
    ELSE IF j > Len(projects) THEN InterLoop(projects, i + 1, i + 2, edges, order)
    ELSE InterLoop(projects, i, j + 1,
                   PairEdges(edges, projects[i], projects[j], order), order)

\* `order` is the iteration order of the tag sets
create_inter_project_edges(ns, order) ==
    LET projects == SelectSeq(ns, LAMBDA n : n["type"] = "service.repository")
    IN  InterLoop(projects, 1, 2, <<>>, order)

\* create_unified_config raises: in the pass over a config, or on
\* n['type'] of a node without a type when the inter-project edges are made
UnifiedConfigRaises(configs) ==
    \/ FirstRaising(configs, ConfigRaises) # 0
    \/ \E i \in DOMAIN configs :
          \E node \in Range(Get(configs[i], "nodes", <<>>)) : "type" \notin DOMAIN node

\* what create_unified_config returns when it does not raise
create_unified_config(configs, order) ==
    LET all_nodes == AllNodes(configs, 0)
        all_edges == AllEdges(configs, 0) \o create_inter_project_edges(all_nodes, order)
    IN  [projectName |-> "Unified Repository Network",
         source |-> "aggregated",
         totalProjects |-> Len(configs),
         stats |-> [totalNodes |-> Len(all_nodes),
                    totalEdges |-> Len(all_edges),
                    totalCommitsLast30Days |-> TotalCommits(configs, 1),
                    statusCounts |-> StatusCounts(configs)],
         nodes |-> all_nodes,
         edges |-> all_edges]

\* the source configs that are merged: with or without a project name; with
\* topics and a language, with other topics, with the same language and no
\* common topic, or without metadata; without nodes, with two components and
\* an edge between them, or with one node that is itself a repository
SourceNames == {<<>>, <<"app">>}

SourceMetadata ==
    {[topics |-> <<"python", "cli", "web">>, language |-> "python"],
     [topics |-> <<"python", "api">>],
     [topics |-> <<"go">>, language |-> "python"],
     EmptyDict}

SourceBodies ==
    {[nodes |-> <<>>, edges |-> <<>>],
     [nodes |-> <<[id |-> "0", type |-> "component.ui", metadata |-> [title |-> "ui"],
                   position |-> [x |-> Rat(10, 1), y |-> Rat(5, 1), z |-> Rat(-20, 1)]],
                  [id |-> "n", type |-> "service.api", metadata |-> [title |-> "api"]]>>,
      edges |-> <<[id |-> "e", from |-> "0", to |-> "n", type |-> "dependsOn"]>>],
     [nodes |-> <<[id |-> "0", type |-> "service.repository", tags |-> <<"python">>,
                   metadata |-> [language |-> "python"]]>>,
      edges |-> <<>>]}

\* source configs without a nodes key or without an edges key
IncompleteConfigs ==
    {[projectName |-> "lib", metadata |-> [topics |-> <<"python">>],
      edges |-> <<[id |-> "e", from |-> "0", to |-> "0"]>>],
     [nodes |-> <<[id |-> "0", type |-> "component.ui", metadata |-> [title |-> "ui"]]>>]}

\* source configs with a dict for a status, a node without an id, without
\* metadata, with a position without x or without a type, an edge without a
\* source
MalformedConfigs ==
    {[status |-> AsDict([state |-> "built", progress |-> 100]),
      nodes |-> <<>>, edges |-> <<>>],
     [nodes |-> <<[type |-> "component.ui", metadata |-> [title |-> "ui"]]>>,
      edges |-> <<>>],
     [nodes |-> <<[id |-> "0", type |-> "component.ui"]>>, edges |-> <<>>],
     [nodes |-> <<[id |-> "0", type |-> "component.ui", metadata |-> [title |-> "ui"],
                   position |-> [y |-> Rat(1, 1)]]>>,
      edges |-> <<>>],
     [nodes |-> <<[id |-> "0", metadata |-> [title |-> "ui"]]>>, edges |-> <<>>],
     [nodes |-> <<[id |-> "0", type |-> "component.ui", metadata |-> [title |-> "ui"]]>>,
      edges |-> <<[id |-> "e", to |-> "0"]>>]}

SourceConfigs ==
    {LET base == IF m = EmptyDict THEN b ELSE With(b, "metadata", m)
     IN  IF name = <<>> THEN base ELSE With(base, "projectName", name[1])
     : name \in SourceNames, m \in SourceMetadata, b \in SourceBodies}
    \cup IncompleteConfigs \cup MalformedConfigs

\* the configs of the status files an aggregator is run on, once or more: a
\* built project with a placed component and an edge, a project in progress
\* with an unplaced component, and an empty project
StatusFileConfigs ==
    {[projectName |-> "app", status |-> AsStr("green"),
      stats |-> [totalCommitsLast30Days |-> 7],
      metadata |-> [topics |-> <<"python">>],
      nodes |-> <<[id |-> "0", type |-> "component.ui", metadata |-> [title |-> "ui"],
                   position |-> [x |-> Rat(10, 1), y |-> Rat(5, 1), z |-> Rat(-20, 1)]]>>,
      edges |-> <<[id |-> "e", from |-> "0", to |-> "0"]>>],
     [status |-> AsStr("orange"),
      nodes |-> <<[id |-> "m", type |-> "service.api", metadata |-> [title |-> "api"]]>>,
      edges |-> <<>>],
     [nodes |-> <<>>, edges |-> <<>>]}

\* iteration orders of a set of tags (the order of a Python set is not fixed)
TagOrders ==
    {<<"python", "cli", "web", "api", "go">>, <<"cli", "web", "python", "api", "go">>,
     <<"web", "python", "cli", "go", "api">>}

\* the assets that are scanned: each analytics field absent or set, the
\* centrality also outside [0, 1], the authors absent, none, one or six
AnalyticsValues ==
    WithOptional(EmptyDict,
                 << <<"activityLast30Days", {0, 25, 80}>>,
                    <<"centralityScore", {Rat(-1, 2), Rat(333, 1000), Rat(3, 2)}>>,
                    <<"connectivity", {10, 30}>> >>)

MetadataValues ==
    {EmptyDict, [authors |-> <<>>], [authors |-> <<"ann">>],
     [authors |-> <<"ann", "bo", "cy", "di", "ed", "fay">>]}

Assets ==
    {[analytics |-> a, metadata |-> m, location |-> "repo"] :
        a \in AnalyticsValues, m \in MetadataValues}

InputKeys == {"activityLast30Days", "centralityScore", "connectivity", "authors"}

\* input k of an asset as given: <<value>>, or <<>> when the field is absent
GivenInput(asset, k) ==
    LET d == IF k = "authors" THEN MetadataOf(asset) ELSE AnalyticsOf(asset)
    IN  IF k \in DOMAIN d THEN <<d[k]>> ELSE <<>>

\* the assets that differ from `asset` in exactly one of the four inputs
OneInputChanged(asset) ==
    {a \in Assets :
        \E k \in InputKeys :
            /\ GivenInput(a, k) # GivenInput(asset, k)
            /\ \A o \in InputKeys \ {k} : GivenInput(a, o) = GivenInput(asset, o)}

(***************************************************************************)
(* abacus_validation_system.py: the registries                             *)
(***************************************************************************)
\* ValidationStatus
PASSED == "passed"
FAILED == "failed"
WARNING == "warning"
SKIPPED == "skipped"
ERROR == "error"

\* _initialize_validation_rules: the rule ids in the dict's (insertion) order
RuleOrder ==
    << "syntax_json_valid", "syntax_schema_compliance",
       "semantic_status_consistency", "semantic_dependency_validity",
       "semantic_relationship_coherence",
       "consistency_cross_reference", "consistency_temporal",
       "consistency_agent_outputs",
       "quality_completeness", "quality_accuracy", "quality_reliability",
       "performance_response_time", "performance_memory_usage",
       "security_sensitive_data", "security_access_control" >>

RuleIds == {RuleOrder[i] : i \in DOMAIN RuleOrder}

\* _initialize_validation_rules: ValidationRule.weight of each rule
RuleWeight ==
    [r \in RuleIds |->
        IF r \in {"syntax_json_valid", "syntax_schema_compliance",
                  "quality_reliability", "security_sensitive_data"}
        THEN Rat(2, 1)
        ELSE IF r \in {"semantic_relationship_coherence", "consistency_temporal",
                       "performance_response_time", "performance_memory_usage"}
        THEN Rat(1, 1)
        ELSE Rat(3, 2)]

\* ValidationRule.weight of a rule built without one (weight: float = 1.0)
DefaultWeight == Rat(1, 1)

\* _initialize_quality_gates, in the dict's order
QualityGates ==
    << [gate_id |-> "gate_syntax",
        rules |-> <<"syntax_json_valid", "syntax_schema_compliance">>,
        threshold |-> Rat(1, 1)],
       [gate_id |-> "gate_semantic",
        rules |-> <<"semantic_status_consistency", "semantic_dependency_validity",
                    "semantic_relationship_coherence">>,
        threshold |-> Rat(8, 10)],
       [gate_id |-> "gate_consistency",
        rules |-> <<"consistency_cross_reference", "consistency_temporal",
                    "consistency_agent_outputs">>,
        threshold |-> Rat(8, 10)],
       [gate_id |-> "gate_quality",
        rules |-> <<"quality_completeness", "quality_accuracy", "quality_reliability">>,
        threshold |-> Rat(85, 100)],
       [gate_id |-> "gate_performance",
        rules |-> <<"performance_response_time", "performance_memory_usage">>,
        threshold |-> Rat(7, 10)],
       [gate_id |-> "gate_security",
        rules |-> <<"security_sensitive_data", "security_access_control">>,
        threshold |-> Rat(1, 1)] >>

(***************************************************************************)
(* abacus_validation_system.py: executing one rule                         *)
(***************************************************************************)
\* ValidationResult (rule_id, status, score)
Result(rule_id, status, score) == [rule_id |-> rule_id, status |-> status, score |-> score]

\* the mutant of _execute_validation_rule: a fault reported as a failed check
ExecuteFaultAsFailed(rule_id, outcome) ==
    IF outcome.kind = "raises"
    THEN [fault |-> FALSE, result |-> Result(rule_id, FAILED, Zero)]
    ELSE [fault |-> FALSE, result |-> Result(rule_id, outcome.status, outcome.score)]

\* _execute_validation_rule: the check's result dict becomes a ValidationResult;
\* whatever is raised while looking the check up, running it or reading its
\* result becomes an ERROR result of score 0.0. No fault leaves it.
_execute_validation_rule(rule_id, outcome) ==
    IF outcome.kind = "raises"
    THEN [fault |-> FALSE, result |-> Result(rule_id, ERROR, Zero)]
    ELSE [fault |-> FALSE, result |-> Result(rule_id, outcome.status, outcome.score)]

\* the mutant of RunRules: the loop stops at the first result in error
RECURSIVE RunRulesStopAtError(_, _, _)
RunRulesStopAtError(i, en, outs) ==
    IF i > Len(RuleOrder) THEN <<>>
    ELSE LET rule_id == RuleOrder[i]
             x == _execute_validation_rule(rule_id, outs[rule_id])
         IN  IF ~en[rule_id] THEN RunRulesStopAtError(i + 1, en, outs)
             ELSE IF x.result.status = ERROR THEN <<x.result>>
             ELSE <<x.result>> \o RunRulesStopAtError(i + 1, en, outs)

\* validate_workflow_execution, "Run all validation rules": rules i.. of the
\* registry in order, a disabled rule skipped, a fault of the call turned into
\* an ERROR result of score 0.0
RECURSIVE RunRules(_, _, _)
RunRules(i, en, outs) ==
    IF i > Len(RuleOrder) THEN <<>>
    ELSE LET rule_id == RuleOrder[i]
             x == _execute_validation_rule(rule_id, outs[rule_id])
         IN  IF ~en[rule_id] THEN RunRules(i + 1, en, outs)
             ELSE IF x.fault
             THEN <<Result(rule_id, ERROR, Zero)>> \o RunRules(i + 1, en, outs)
             ELSE <<x.result>> \o RunRules(i + 1, en, outs)

(***************************************************************************)
(* abacus_validation_system.py: quality gates and the report               *)
(***************************************************************************)
\* next((r for r in validation_results if r.rule_id == rule_id), None),
\* as a list of at most one result
RECURSIVE FirstResult(_, _)
FirstResult(results, rule_id) ==
    IF results = <<>> THEN <<>>
    ELSE IF Head(results).rule_id = rule_id THEN <<Head(results)>>
    ELSE FirstResult(Tail(results), rule_id)

\* self.validation_rules.get(rule_id, ValidationRule(...)).weight
GateRuleWeight(rule_id) == Get(RuleWeight, rule_id, DefaultWeight)

\* the mutant of GateTotals: a rule without a result counts with score 0
RECURSIVE GateTotalsCountingAbsent(_, _)
GateTotalsCountingAbsent(rules, results) ==
    IF rules = <<>> THEN [score |-> Zero, weight |-> Zero, matched |-> <<>>]
    ELSE LET rest == GateTotalsCountingAbsent(Tail(rules), results)
             rule_id == Head(rules)
             found == FirstResult(results, rule_id)
         IN  IF found = <<>>
             THEN [rest EXCEPT !.weight = RatAdd(GateRuleWeight(rule_id), @)]
             ELSE [score |-> RatAdd(RatMul(found[1].score, GateRuleWeight(rule_id)),
                                    rest.score),
                   weight |-> RatAdd(GateRuleWeight(rule_id), rest.weight),
                   matched |-> <<rule_id>> \o rest.matched]

\* _evaluate_quality_gate, the loop over gate.rules: total_score, total_weight
\* and the rule ids of gate_results
RECURSIVE GateTotals(_, _)
GateTotals(rules, results) ==
    IF rules = <<>> THEN [score |-> Zero, weight |-> Zero, matched |-> <<>>]
    ELSE LET rest == GateTotals(Tail(rules), results)
             rule_id == Head(rules)
             found == FirstResult(results, rule_id)
         IN  IF found = <<>> THEN rest
             ELSE [score |-> RatAdd(RatMul(found[1].score, GateRuleWeight(rule_id)),
                                    rest.score),
                   weight |-> RatAdd(GateRuleWeight(rule_id), rest.weight),
                   matched |-> <<rule_id>> \o rest.matched]

\* the mutant of GatePassed: the threshold itself does not pass
GatePassedStrict(gate_score, threshold) == RatLt(threshold, gate_score)

\* passed = gate_score >= gate.threshold
GatePassed(gate_score, threshold) == RatGeq(gate_score, threshold)

\* gate_score = total_score / total_weight if total_weight > 0 else 0.0
GateScore(totals) ==
    IF RatLt(Zero, totals.weight) THEN RatDiv(totals.score, totals.weight) ELSE Zero

_evaluate_quality_gate(g, results) ==
    LET totals == GateTotals(g.rules, results)
        gate_score == GateScore(totals)
    IN  [gate_id |-> g.gate_id,
         passed |-> GatePassed(gate_score, g.threshold),
         score |-> gate_score,
         threshold |-> g.threshold,
         rule_results |-> totals.matched]

\* [r for r in validation_results if r.status == status]
RECURSIVE WithStatus(_, _)
WithStatus(results, status) ==
    IF results = <<>> THEN <<>>
    ELSE IF Head(results).status = status
    THEN <<Head(results)>> \o WithStatus(Tail(results), status)
    ELSE WithStatus(Tail(results), status)

\* [g for g in quality_gate_results if g.get('passed', False)]
RECURSIVE PassedGates(_)
PassedGates(gates) ==
    IF gates = <<>> THEN <<>>
    ELSE IF Get(Head(gates), "passed", FALSE)
    THEN <<Head(gates)>> \o PassedGates(Tail(gates))
    ELSE PassedGates(Tail(gates))

\* [g for g in quality_gate_results if not g.get('passed', False)]
RECURSIVE FailedGates(_)
FailedGates(gates) ==
    IF gates = <<>> THEN <<>>
    ELSE IF ~Get(Head(gates), "passed", FALSE)
    THEN <<Head(gates)>> \o FailedGates(Tail(gates))
    ELSE FailedGates(Tail(gates))

\* a mutant of _calculate_overall_status: the gates looked at before the errors
OverallStatusGatesFirst(results, gates) ==
    IF FailedGates(gates) # <<>> THEN FAILED
    ELSE IF WithStatus(results, ERROR) # <<>> THEN ERROR
    ELSE IF WithStatus(results, WARNING) # <<>> THEN WARNING
    ELSE PASSED

\* the mutant of OverallStatus: warnings looked at before the gates
OverallStatusWarningsFirst(results, gates) ==
    IF WithStatus(results, ERROR) # <<>> THEN ERROR
    ELSE IF WithStatus(results, WARNING) # <<>> THEN WARNING
    ELSE IF FailedGates(gates) # <<>> THEN FAILED
    ELSE PASSED

\* the cascade of _calculate_overall_status
OverallStatus(results, gates) ==
    IF WithStatus(results, ERROR) # <<>> THEN ERROR
    ELSE IF FailedGates(gates) # <<>> THEN FAILED
    ELSE IF WithStatus(results, WARNING) # <<>> THEN WARNING
    ELSE PASSED

_calculate_overall_status(results, gates) == OverallStatus(results, gates)

\* len([g ... if g.get('passed', False)]) / len(quality_gate_results)
\*     if quality_gate_results else 1.0
GateSuccessRate(gates) ==
    IF gates # <<>> THEN Rat(Len(PassedGates(gates)), Len(gates)) ELSE One

\* _calculate_reliability_score, the loop: total_score and total_weight over
\* the results whose rule is in the registry
RECURSIVE ReliabilityTotals(_)
ReliabilityTotals(results) ==
    IF results = <<>> THEN [score |-> Zero, weight |-> Zero]
    ELSE LET rest == ReliabilityTotals(Tail(results))
             r == Head(results)
         IN  IF r.rule_id \in DOMAIN RuleWeight
             THEN [score |-> RatAdd(RatMul(r.score, RuleWeight[r.rule_id]), rest.score),
                   weight |-> RatAdd(RuleWeight[r.rule_id], rest.weight)]
             ELSE rest

\* the mutant of _calculate_reliability_score: the two shares swapped
ReliabilitySharesSwapped(results, gates) ==
    IF results = <<>> THEN Zero
    ELSE LET totals == ReliabilityTotals(results)
             validation_score == IF RatLt(Zero, totals.weight)
                                 THEN RatDiv(totals.score, totals.weight) ELSE Zero
             reliability_score ==
                 RatMul(RatAdd(RatMul(validation_score, Rat(3, 10)),
                               RatMul(GateSuccessRate(gates), Rat(7, 10))),
                        Rat(100, 1))
         IN  RatMin(Rat(100, 1), RatMax(Zero, reliability_score))

_calculate_reliability_score(results, gates) ==
    IF results = <<>> THEN Zero
    ELSE LET totals == ReliabilityTotals(results)
             validation_score == IF RatLt(Zero, totals.weight)
                                 THEN RatDiv(totals.score, totals.weight) ELSE Zero
             reliability_score ==
                 RatMul(RatAdd(RatMul(validation_score, Rat(7, 10)),
                               RatMul(GateSuccessRate(gates), Rat(3, 10))),
                        Rat(100, 1))
         IN  RatMin(Rat(100, 1), RatMax(Zero, reliability_score))

\* [r.score for r in validation_results if r.score > 0]
RECURSIVE PositiveScores(_)
PositiveScores(results) ==
    IF results = <<>> THEN <<>>
    ELSE IF RatLt(Zero, Head(results).score)
    THEN <<Head(results).score>> \o PositiveScores(Tail(results))
    ELSE PositiveScores(Tail(results))

\* [r.score for r in validation_results]
RECURSIVE AllScores(_)
AllScores(results) ==
    IF results = <<>> THEN <<>>
    ELSE <<Head(results).score>> \o AllScores(Tail(results))

\* the mutant of ConfidenceScores: the scores of 0 are averaged too
ConfidenceScoresAll(results) == AllScores(results)

\* confidence_scores of _calculate_confidence_level
ConfidenceScores(results) == PositiveScores(results)

_calculate_confidence_level(results, gates) ==
    IF results = <<>> THEN Zero
    ELSE LET confidence_scores == ConfidenceScores(results)
         IN  IF confidence_scores = <<>> THEN Zero
             ELSE LET avg_confidence ==
                          RatDiv(RatSum(confidence_scores),
                                 Rat(Len(confidence_scores), 1))
                      combined_confidence ==
                          RatAdd(RatMul(avg_confidence, Rat(8, 10)),
                                 RatMul(GateSuccessRate(gates), Rat(2, 10)))
                  IN  RatMin(One, RatMax(Zero, combined_confidence))

\* "Evaluate quality gates": every gate of the registry (all are enabled)
RECURSIVE EvaluateGates(_, _)
EvaluateGates(gates, results) ==
    IF gates = <<>> THEN <<>>
    ELSE <<_evaluate_quality_gate(Head(gates), results)>>
         \o EvaluateGates(Tail(gates), results)

\* the ValidationReport built from the results and the gate verdicts
BuildReport(results, gates) ==
    [overall_status |-> _calculate_overall_status(results, gates),
     reliability_score |-> _calculate_reliability_score(results, gates),
     confidence_level |-> _calculate_confidence_level(results, gates),
     quality_gates_passed |-> Len(PassedGates(gates)),
     total_quality_gates |-> Len(gates),
     validation_results |-> results,
     quality_gate_results |-> gates]

(***************************************************************************)
(* abacus_validation_system.py: the report's figures as the interpreter    *)
(* computes them. A Python float is an IEEE 754 binary64: every +, * and / *)
(* returns the exact result rounded to 53 significant bits, ties to even.  *)
(* The exact results need more than 32 bits, so a natural number is a      *)
(* sequence of limbs, least significant first, without leading zero limbs, *)
(* and a float f >= 0 is the pair of an odd natural m and an exponent e,   *)
(* f = m * 2^e (0.0 is the pair of <<>> and 0). The figures lie between    *)
(* 2^-60 and 2^10, where binary64 neither underflows nor overflows.        *)
(***************************************************************************)
LimbBits == 15
LimbBase == 2^LimbBits

\* the significant bits of a binary64
Precision == 53

\* the limbs of a natural number of the machine's width
RECURSIVE BigOf(_)
BigOf(n) == IF n = 0 THEN <<>> ELSE <<n % LimbBase>> \o BigOf(n \div LimbBase)

\* without its leading zero limbs
RECURSIVE Trim(_)
Trim(a) ==
    IF a = <<>> THEN <<>>
    ELSE IF a[Len(a)] = 0 THEN Trim(SubSeq(a, 1, Len(a) - 1))
    ELSE a

RECURSIVE AddCarry(_, _, _)
AddCarry(a, b, carry) ==
    IF a = <<>> /\ b = <<>> THEN BigOf(carry)
    ELSE LET x == IF a = <<>> THEN 0 ELSE Head(a)
             y == IF b = <<>> THEN 0 ELSE Head(b)
             t == x + y + carry
         IN  <<t % LimbBase>>
             \o AddCarry(IF a = <<>> THEN <<>> ELSE Tail(a),
                         IF b = <<>> THEN <<>> ELSE Tail(b), t \div LimbBase)

BigAdd(a, b) == AddCarry(a, b, 0)

\* a * k + carry, for k and carry below LimbBase
RECURSIVE MulSmall(_, _, _)
MulSmall(a, k, carry) ==
    IF a = <<>> THEN BigOf(carry)
    ELSE LET t == Head(a) * k + carry
         IN  <<t % LimbBase>> \o MulSmall(Tail(a), k, t \div LimbBase)

RECURSIVE MulLimbs(_, _)
MulLimbs(a, b) ==
    IF b = <<>> THEN <<>>
    ELSE BigAdd(MulSmall(a, Head(b), 0), <<0>> \o MulLimbs(a, Tail(b)))

BigMul(a, b) == Trim(MulLimbs(a, b))

\* quotient (not trimmed) and remainder of a by d, for 0 < d <= LimbBase
RECURSIVE DivLimbs(_, _)
DivLimbs(a, d) ==
    IF a = <<>> THEN [q |-> <<>>, r |-> 0]
    ELSE LET high == DivLimbs(Tail(a), d)
             t == high.r * LimbBase + Head(a)
         IN  [q |-> <<t \div d>> \o high.q, r |-> t % d]

DivSmall(a, d) == LET qr == DivLimbs(a, d) IN [q |-> Trim(qr.q), r |-> qr.r]

RECURSIVE SmallBitLen(_)
SmallBitLen(n) == IF n = 0 THEN 0 ELSE 1 + SmallBitLen(n \div 2)

\* the number of bits of a
BitLen(a) ==
    IF a = <<>> THEN 0 ELSE LimbBits * (Len(a) - 1) + SmallBitLen(a[Len(a)])

ZeroLimbs(n) == [i \in 1..n |-> 0]

\* a * 2^s
ShiftLeft(a, s) ==
    IF a = <<>> THEN <<>>
    ELSE ZeroLimbs(s \div LimbBits) \o MulSmall(a, 2^(s % LimbBits), 0)

\* a \div 2^s, and whether bits of 1 were shifted out
ShiftRight(a, s) ==
    LET limbs == Min(s \div LimbBits, Len(a))
        qr == DivSmall(SubSeq(a, limbs + 1, Len(a)), 2^(s % LimbBits))
    IN  [q |-> qr.q,
         lost |-> qr.r # 0 \/ \E i \in 1..limbs : a[i] # 0]

\* a < b
RECURSIVE BigLess(_, _)
BigLess(a, b) ==
    IF Len(a) # Len(b) THEN Len(a) < Len(b)
    ELSE IF a = <<>> THEN FALSE
    ELSE IF a[Len(a)] # b[Len(b)] THEN a[Len(a)] < b[Len(b)]
    ELSE BigLess(SubSeq(a, 1, Len(a) - 1), SubSeq(b, 1, Len(b) - 1))

IsOdd(a) == a # <<>> /\ Head(a) % 2 = 1

\* the float m * 2^e, m of at most Precision bits, with m made odd
RECURSIVE Float(_, _)
Float(m, e) ==
    IF m = <<>> THEN [m |-> <<>>, e |-> 0]
    ELSE IF Head(m) = 0 THEN Float(Tail(m), e + LimbBits)
    ELSE IF Head(m) % 2 = 0 THEN Float(DivSmall(m, 2).q, e + 1)
    ELSE [m |-> m, e |-> e]

\* round-half-to-even: the float nearest to (n + fraction) * 2^e, where
\* 0 <= fraction < 1 and `inexact` tells that the fraction is not 0 (n has
\* more than Precision bits then)
RoundNearestEven(n, e, inexact) ==
    IF BitLen(n) <= Precision THEN Float(n, e)
    ELSE LET s == BitLen(n) - Precision
             kept == ShiftRight(n, s - 1)
             q == DivSmall(kept.q, 2).q
             up == IsOdd(kept.q) /\ (kept.lost \/ inexact \/ IsOdd(q))
         IN  Float(IF up THEN BigAdd(q, <<1>>) ELSE q, e + s)

\* the quotient bits computed past the binary point of a division
GuardBits == 5 * LimbBits

\* the float nearest to n * 2^e / d, for 0 < d < LimbBase
DivRound(n, e, d) ==
    LET qr == DivSmall(ShiftLeft(n, GuardBits), d)
    IN  RoundNearestEven(qr.q, e - GuardBits, qr.r # 0)

\* x + y
FloatAdd(x, y) ==
    LET e == Min(x.e, y.e)
    IN  RoundNearestEven(BigAdd(ShiftLeft(x.m, x.e - e), ShiftLeft(y.m, y.e - e)),
                         e, FALSE)

\* x * y
FloatMul(x, y) == RoundNearestEven(BigMul(x.m, y.m), x.e + y.e, FALSE)

\* x / y, for y = d * 2^e with 0 < d < LimbBase (a weight, a sum of weights
\* or a count)
FloatDiv(x, y) == DivRound(x.m, x.e - y.e, y.m[1])

\* x < y
FloatLess(x, y) ==
    LET e == Min(x.e, y.e)
    IN  BigLess(ShiftLeft(x.m, x.e - e), ShiftLeft(y.m, y.e - e))

FloatMin(x, y) == IF FloatLess(y, x) THEN y ELSE x
FloatMax(x, y) == IF FloatLess(x, y) THEN y ELSE x

\* the float of a literal or of a count: the float nearest to n / d
FloatOf(x) == DivRound(BigOf(x.n), 0, x.d)

FloatZero == FloatOf(Zero)

\* _calculate_reliability_score, the loop: total_score += result.score * weight
\* and total_weight += weight, result after result in the order of the list
RECURSIVE FloatTotals(_, _, _)
FloatTotals(results, total_score, total_weight) ==
    IF results = <<>> THEN [score |-> total_score, weight |-> total_weight]
    ELSE LET r == Head(results)
         IN  IF r.rule_id \in DOMAIN RuleWeight
             THEN LET weight == FloatOf(RuleWeight[r.rule_id])
                  IN  FloatTotals(Tail(results),
                                  FloatAdd(total_score,
                                           FloatMul(FloatOf(r.score), weight)),
                                  FloatAdd(total_weight, weight))
             ELSE FloatTotals(Tail(results), total_score, total_weight)

\* _calculate_reliability_score in float arithmetic
FloatReliabilityScore(results, gates) ==
    IF results = <<>> THEN FloatZero
    ELSE LET totals == FloatTotals(results, FloatZero, FloatZero)
             validation_score == IF FloatLess(FloatZero, totals.weight)
                                 THEN FloatDiv(totals.score, totals.weight)
                                 ELSE FloatZero
             gate_score == FloatOf(GateSuccessRate(gates))
             reliability_score ==
                 FloatMul(FloatAdd(FloatMul(validation_score, FloatOf(Rat(7, 10))),
                                   FloatMul(gate_score, FloatOf(Rat(3, 10)))),
                          FloatOf(Rat(100, 1)))
         IN  FloatMin(FloatOf(Rat(100, 1)), FloatMax(FloatZero, reliability_score))

\* sum(confidence_scores): the builtin adds the floats from left to right
\* (CPython up to 3.11; later versions carry a compensation term)
RECURSIVE FloatSum(_, _)
FloatSum(seq, total) ==
    IF seq = <<>> THEN total
    ELSE FloatSum(Tail(seq), FloatAdd(total, FloatOf(Head(seq))))

\* _calculate_confidence_level in float arithmetic
FloatConfidenceLevel(results, gates) ==
    IF results = <<>> THEN FloatZero
    ELSE LET confidence_scores == ConfidenceScores(results)
         IN  IF confidence_scores = <<>> THEN FloatZero
             ELSE LET avg_confidence ==
                          FloatDiv(FloatSum(confidence_scores, FloatZero),
                                   FloatOf(Rat(Len(confidence_scores), 1)))
                      gate_success_rate == FloatOf(GateSuccessRate(gates))
                      combined_confidence ==
                          FloatAdd(FloatMul(avg_confidence, FloatOf(Rat(8, 10))),
                                   FloatMul(gate_success_rate, FloatOf(Rat(2, 10))))
                  IN  FloatMin(FloatOf(One), FloatMax(FloatZero, combined_confidence))

\* the ValidationReport with its two figures as floats
FloatReport(results, gates) ==
    [overall_status |-> _calculate_overall_status(results, gates),
     reliability_score |-> FloatReliabilityScore(results, gates),
     confidence_level |-> FloatConfidenceLevel(results, gates),
     quality_gates_passed |-> Len(PassedGates(gates)),
     total_quality_gates |-> Len(gates),
     validation_results |-> results,
     quality_gate_results |-> gates]

(***************************************************************************)
(* abacus_validation_system.py: the checks of the semantic and the         *)
(* performance rules. A check returns a dict with a status and a score;    *)
(* whatever is raised in its body is caught by its own except clause,      *)
(* which returns an ERROR of score 0.0.                                    *)
(***************************************************************************)
\* _initialize_validation_rules: ValidationRule.threshold of each rule as
\* <<threshold>>, or <<>> for a rule built without one (threshold = None)
RuleThreshold ==
    [r \in RuleIds |->
        IF r \in {"syntax_json_valid", "syntax_schema_compliance",
                  "semantic_dependency_validity",
                  "security_sensitive_data", "security_access_control"}
        THEN <<>>
        ELSE IF r \in {"semantic_relationship_coherence", "consistency_temporal"}
        THEN <<Rat(7, 10)>>
        ELSE IF r \in {"quality_completeness", "quality_reliability"}
        THEN <<Rat(9, 10)>>
        ELSE IF r = "performance_response_time" THEN <<Rat(5, 1)>>
        ELSE IF r = "performance_memory_usage" THEN <<Rat(1000, 1)>>
        ELSE <<Rat(8, 10)>>]

RatSub(a, b) == Rat(a.n * b.d - b.n * a.d, a.d * b.d)

\* what a check returns
Returns(status, score) == [kind |-> "returns", status |-> status, score |-> score]

\* the except clause of a check
CheckError == Returns(ERROR, Zero)

\* max(0.0, 1.0 - (issues / total))
IssueScore(issues, total) == RatMax(Zero, RatSub(One, Rat(issues, total)))

\* "if score >= rule.threshold: PASSED, else: WARNING"; the comparison with
\* a threshold of None raises TypeError, which the except clause catches
ScoreVerdict(score, rule_id) ==
    IF RuleThreshold[rule_id] = <<>> THEN CheckError
    ELSE IF RatGeq(score, RuleThreshold[rule_id][1]) THEN Returns(PASSED, score)
    ELSE Returns(WARNING, score)

\* the issues validate_status_consistency appends for a dict status
StatusIssues(status) ==
    LET state == Get(status, "state", "unknown")
        progress == Get(status, "progress", 0)
    IN  (IF progress < 0 \/ progress > 100 THEN 1 ELSE 0)
        + (IF state = "built" /\ progress < 100 THEN 1
           ELSE IF state = "backlogged" /\ progress > 0 THEN 1
           ELSE 0)

\* the sum of F over the positions of a list (F at most MaxIssuesEach)
MaxIssuesEach == 2
SumOver(seq, F(_)) ==
    Cardinality({p \in (DOMAIN seq) \X (1..MaxIssuesEach) : F(seq[p[1]]) >= p[2]})

\* asset.get('status', {}): a dict, or a value without .get
AssetStatus(asset) == Get(asset, "status", AsDict(EmptyDict))

validate_status_consistency(data) ==
    LET assets == Get(data, "assets", <<>>)
    IN  IF assets = <<>> THEN Returns(WARNING, Rat(1, 2))
        ELSE IF \E i \in DOMAIN assets : AssetStatus(assets[i]).kind # "dict"
        THEN CheckError
        ELSE ScoreVerdict(IssueScore(SumOver(assets, LAMBDA a : StatusIssues(AssetStatus(a).d)),
                                     Len(assets)),
                          "semantic_status_consistency")

\* {asset.get('id') for asset in assets if 'id' in asset}
AssetIds(assets) == {assets[i]["id"] : i \in {j \in DOMAIN assets : "id" \in DOMAIN assets[j]}}

\* edge.get(key) is the id of an asset
Resolves(edge, key, ids) == key \in DOMAIN edge /\ edge[key] \in ids

\* asset.get('dependencies', {}).get('ai_validated_dependencies', [])
AiDependencies(asset) ==
    Get(Get(asset, "dependencies", EmptyDict), "ai_validated_dependencies", <<>>)

\* the entries of invalid_dependencies for one asset
InvalidDependencies(asset, ids) ==
    Cardinality({j \in DOMAIN AiDependencies(asset) :
                   /\ "dependency_id" \in DOMAIN AiDependencies(asset)[j]
                   /\ AiDependencies(asset)[j]["dependency_id"] # ""
                   /\ AiDependencies(asset)[j]["dependency_id"] \notin ids})

validate_dependency_validity(data) ==
    LET assets == Get(data, "assets", <<>>)
        edges == Get(data, "edges", <<>>)
        ids == AssetIds(assets)
        invalid_edges ==
            SumOver(edges, LAMBDA e : (IF Resolves(e, "from", ids) THEN 0 ELSE 1)
                                      + (IF Resolves(e, "to", ids) THEN 0 ELSE 1))
        invalid_dependencies == SumOver(assets, LAMBDA a : InvalidDependencies(a, ids))
    IN  ScoreVerdict(IssueScore(invalid_edges + invalid_dependencies,
                                Max(1, Len(edges) + Len(assets))),
                     "semantic_dependency_validity")

\* _are_types_compatible: the compatibility matrix
compatible_types ==
    [t \in {"component.ui.react", "component.ui.3d", "service.backend", "service.api",
            "service.serverless", "library.js", "library.utils", "library.shared"} |->
        CASE t = "component.ui.react" -> {"component.ui", "component.ui.3d"}
          [] t = "component.ui.3d" -> {"component.ui", "component.ui.react"}
          [] t = "service.backend" -> {"service.api", "service.serverless"}
          [] t = "service.api" -> {"service.backend", "service.serverless"}
          [] t = "service.serverless" -> {"service.backend", "service.api"}
          [] t = "library.js" -> {"library.utils", "library.shared"}
          [] t = "library.utils" -> {"library.js", "library.shared"}
          [] t = "library.shared" -> {"library.js", "library.utils"}]

_are_types_compatible(type1, type2) ==
    \/ type1 = type2
    \/ type2 \in Get(compatible_types, type1, {})
    \/ type1 \in Get(compatible_types, type2, {})

\* the asset of the asset map at this id: the last one in the list
AssetAt(assets, id) ==
    assets[CHOOSE i \in DOMAIN assets :
              /\ "id" \in DOMAIN assets[i] /\ assets[i]["id"] = id
              /\ \A j \in DOMAIN assets :
                    ("id" \in DOMAIN assets[j] /\ assets[j]["id"] = id) => j <= i]

\* a dependency weaker than this is an issue
WeakStrength == Rat(1, 10)

\* the entries of coherence_issues for one edge
CoherenceIssues(edge, assets) ==
    IF ~Resolves(edge, "from", AssetIds(assets)) \/ ~Resolves(edge, "to", AssetIds(assets))
    THEN 0
    ELSE LET from_type == Get(AssetAt(assets, edge["from"]), "type", "")
             to_type == Get(AssetAt(assets, edge["to"]), "type", "")
             edge_type == Get(edge, "type", "unknown")
             strength == Get(edge, "strength", Zero)
         IN  (IF edge_type = "dependsOn" /\ RatLt(strength, WeakStrength) THEN 1
              ELSE IF /\ edge_type = "conflictsWith"
                      /\ from_type # to_type
                      /\ ~_are_types_compatible(from_type, to_type) THEN 1
              ELSE 0)
             + (IF edge["from"] = edge["to"] THEN 1 ELSE 0)

validate_relationship_coherence(data) ==
    LET assets == Get(data, "assets", <<>>)
        edges == Get(data, "edges", <<>>)
    IN  ScoreVerdict(IssueScore(SumOver(edges, LAMBDA e : CoherenceIssues(e, assets)),
                                Max(1, Len(edges))),
                     "semantic_relationship_coherence")

\* "if value > rule.threshold: WARNING with max(0.0, 1.0 - (value / threshold)),
\* else PASSED with 1.0"
ThresholdVerdict(value, rule_id) ==
    IF RatLt(RuleThreshold[rule_id][1], value)
    THEN Returns(WARNING, RatMax(Zero, RatSub(One, RatDiv(value, RuleThreshold[rule_id][1]))))
    ELSE Returns(PASSED, One)

validate_response_time(data) ==
    ThresholdVerdict(Get(Get(Get(data, "workflow_results", EmptyDict),
                             "execution_summary", EmptyDict),
                         "total_execution_time", Zero),
                     "performance_response_time")

\* the bytes of a megabyte: 1024 * 1024
BytesPerMB == 1048576

\* size is the length in bytes of the data as JSON
validate_memory_usage(size) ==
    ThresholdVerdict(Rat(size, BytesPerMB), "performance_memory_usage")

\* the rules whose checks are modelled above
CheckedRules ==
    {"semantic_status_consistency", "semantic_dependency_validity",
     "semantic_relationship_coherence", "performance_response_time",
     "performance_memory_usage"}

\* what the check of a rule does on this data
CheckOutcome(rule_id, data, size, others) ==
    CASE rule_id = "semantic_status_consistency" -> validate_status_consistency(data)
      [] rule_id = "semantic_dependency_validity" -> validate_dependency_validity(data)
      [] rule_id = "semantic_relationship_coherence" -> validate_relationship_coherence(data)
      [] rule_id = "performance_response_time" -> validate_response_time(data)
      [] rule_id = "performance_memory_usage" -> validate_memory_usage(size)
      [] OTHER -> others[rule_id]

(***************************************************************************)
(* The arguments of the engine.                                            *)
(***************************************************************************)
\* all sequences over S of length at most n
RECURSIVE SeqsUpTo(_, _)
SeqsUpTo(S, n) ==
    IF n = 0 THEN {<<>>}
    ELSE LET shorter == SeqsUpTo(S, n - 1)
         IN  shorter \cup {<<x>> \o q : x \in S, q \in shorter}

\* what a check returns: a ValidationStatus and a score in [0, 1]
CheckReturns ==
    { [kind |-> "returns", status |-> PASSED, score |-> One],
      [kind |-> "returns", status |-> WARNING, score |-> Rat(7, 10)],
      [kind |-> "returns", status |-> FAILED, score |-> Zero],
      [kind |-> "returns", status |-> ERROR, score |-> Zero] }

\* rule ids of results given to the aggregation functions directly: two rules
\* of the registry with different weights and one that is not in the registry
DirectRuleIds == {"syntax_json_valid", "consistency_temporal", "custom_rule"}

DirectResults ==
    {Result(id, c.status, c.score) : id \in DirectRuleIds, c \in CheckReturns}

DirectGates ==
    {[gate_id |-> "gate", rules |-> rs, threshold |-> t] :
        rs \in SeqsUpTo(DirectRuleIds, MaxGateRules),
        t \in {Zero, Rat(7, 10), One}}

\* gate verdicts, as _evaluate_quality_gate builds them
DirectVerdicts == {[gate_id |-> "gate", passed |-> TRUE],
                   [gate_id |-> "gate", passed |-> FALSE]}

\* what a rule does in one run: its check returns or faults, or the rule is
\* disabled
RuleChoices ==
    { [kind |-> "returns", status |-> PASSED, score |-> One],
      [kind |-> "returns", status |-> WARNING, score |-> Rat(7, 10)],
      [kind |-> "returns", status |-> ERROR, score |-> Zero],
      [kind |-> "raises"],
      [kind |-> "disabled"] }

\* what every rule does in a run unless stated otherwise
BaseOutcomes == {[kind |-> "returns", status |-> PASSED, score |-> One],
                 [kind |-> "raises"]}

RunInput(base, D, f) ==
    [enabled |-> [r \in RuleIds |-> ~(r \in D /\ f[r].kind = "disabled")],
     outcomes |-> [r \in RuleIds |->
                      IF r \in D /\ f[r].kind # "disabled" THEN f[r] ELSE base]]

\* the sets of at most n rules
RuleSetsUpTo(n) == {X \in SUBSET RuleIds : Cardinality(X) <= n}

\* asset statuses in the four shapes: a dict of the new format (consistent,
\* built or backlogged with the wrong progress, progress out of range), a
\* dict of the legacy format, a state word, a phase word
AssetStatuses ==
    {AsDict([state |-> "built", progress |-> 100]),
     AsDict([state |-> "built", progress |-> 50]),
     AsDict([state |-> "backlogged", progress |-> 0]),
     AsDict([state |-> "backlogged", progress |-> 10]),
     AsDict([state |-> "building", progress |-> 150]),
     AsDict([state |-> "built", progress |-> -5]),
     AsDict([phase |-> "green", completeness |-> 500]),
     AsStr("built"),
     AsStr("green")}

\* reports whose assets differ in their status
StatusData ==
    {[assets |-> as] :
        as \in SeqsUpTo({[id |-> "a", type |-> "component.ui", status |-> st] :
                           st \in AssetStatuses}, MaxStatusAssets)}

Built == AsDict([state |-> "built", progress |-> 100])

\* assets of three types, with and without a declared dependency
GraphAssets ==
    {[id |-> "a", type |-> "component.ui.react", status |-> Built],
     [id |-> "b", type |-> "component.ui", status |-> Built],
     [id |-> "c", type |-> "service.api", status |-> Built],
     [id |-> "a", type |-> "component.ui.react", status |-> Built,
      dependencies |-> [ai_validated_dependencies |-> <<[dependency_id |-> "b"]>>]],
     [id |-> "b", type |-> "component.ui", status |-> Built,
      dependencies |-> [ai_validated_dependencies |-> <<[dependency_id |-> "zz"]>>]]}

\* edges: a strong and a weak dependency, a self-reference of "a" and one of
\* an id that no asset has, conflicts in both directions and across families
GraphEdges ==
    {[from |-> "a", to |-> "b", type |-> "dependsOn", strength |-> Rat(8, 10)],
     [from |-> "a", to |-> "b", type |-> "dependsOn", strength |-> Rat(5, 100)],
     [from |-> "a", to |-> "a", type |-> "relatedTo", strength |-> Rat(5, 10)],
     [from |-> "z", to |-> "z", type |-> "relatedTo", strength |-> Rat(5, 10)],
     [from |-> "a", to |-> "b", type |-> "conflictsWith", strength |-> Rat(5, 10)],
     [from |-> "b", to |-> "a", type |-> "conflictsWith", strength |-> Rat(5, 10)],
     [from |-> "a", to |-> "c", type |-> "conflictsWith", strength |-> Rat(5, 10)]}

\* reports of at most MaxGraphItems assets and edges together
GraphData ==
    UNION {{[assets |-> as, edges |-> es] :
               as \in SeqsUpTo(GraphAssets, k),
               es \in SeqsUpTo(GraphEdges, MaxGraphItems - k)} : k \in 0..MaxGraphItems}

\* reports that took this long, in seconds
ExecutionTimes == {Zero, Rat(1, 1), Rat(5, 1), Rat(5001, 1000), Rat(6, 1), Rat(10, 1)}

TimedData ==
    {[assets |-> <<>>, edges |-> <<>>]}
    \cup {[assets |-> <<>>, edges |-> <<>>,
           workflow_results |-> [execution_summary |-> [total_execution_time |-> t]]] :
             t \in ExecutionTimes}

\* the size of a small report, and sizes up to and beyond the 1000 MB of
\* the memory rule
SmallSize == 2048
PayloadSizes == {0, SmallSize, 1000 * BytesPerMB, 1000 * BytesPerMB + 1,
                 1500 * BytesPerMB, 2000 * BytesPerMB}

\* a check of a rule not modelled here that finds nothing wrong
NothingWrong == [kind |-> "returns", status |-> PASSED, score |-> One]

UtilsIdle ==
    /\ statusIn = [kind |-> "none"]
    /\ statusOut = <<>>
    /\ statusOut2 = <<>>
    /\ converted = <<>>
    /\ nodes = <<>>
    /\ overall = <<>>

AssetIdle ==
    /\ assetIn = EmptyDict
    /\ scans = <<>>

MergeIdle ==
    /\ sources = <<>>
    /\ all_configs = <<>>
    /\ unified = <<>>
    /\ merge_raised = FALSE

StatusIdle == UtilsIdle /\ AssetIdle /\ MergeIdle

ChecksIdle ==
    /\ execution_data = <<>>
    /\ payload_size = 0
    /\ rule_result = <<>>

EngineIdle ==
    /\ enabled = <<>>
    /\ outcomes = <<>>
    /\ validation_results = <<>>
    /\ gate = <<>>
    /\ quality_gate_results = <<>>
    /\ report = <<>>
    /\ raised = FALSE

InitStatus ==
    /\ statusIn \in StatusInputs
    /\ statusOut = <<>>
    /\ statusOut2 = <<>>
    /\ converted = <<>>
    /\ nodes = <<>>
    /\ overall = <<>>
    /\ AssetIdle
    /\ MergeIdle
    /\ EngineIdle
    /\ ChecksIdle
    /\ pc = "status"

\* a caller normalises a status
Normalize ==
    /\ pc = "status"
    /\ statusOut = <<>>
    /\ statusOut' = <<normalize_status(statusIn)>>
    /\ UNCHANGED <<statusIn, statusOut2, converted, nodes, overall, pc>>
    /\ UNCHANGED <<assetVars, mergeVars, engineVars, checkVars>>

\* a caller normalises a status that normalize_status returned (a stored,
\* already normalised asset status read back by config_manager.py)
NormalizeAgain ==
    /\ pc = "status"
    /\ statusOut # <<>>
    /\ statusOut2 = <<>>
    /\ statusOut2' = <<normalize_status(AsDict(statusOut[1]))>>
    /\ UNCHANGED <<statusIn, statusOut, converted, nodes, overall, pc>>
    /\ UNCHANGED <<assetVars, mergeVars, engineVars, checkVars>>

\* the word the next conversion is applied to: the status string, or the
\* result of the conversion before
ConversionArg == IF converted = <<>> THEN statusIn.s ELSE converted[Len(converted)].res

\* a caller converts a legacy status word (convert_status_format.py)
ConvertLegacyToNew ==
    /\ pc = "status"
    /\ statusIn.kind = "str"
    /\ Len(converted) < MaxConversions
    /\ converted' = Append(converted, [fn |-> "convert_legacy_to_new",
                                       arg |-> ConversionArg,
                                       res |-> convert_legacy_to_new(ConversionArg)])
    /\ UNCHANGED <<statusIn, statusOut, statusOut2, nodes, overall, pc>>
    /\ UNCHANGED <<assetVars, mergeVars, engineVars, checkVars>>

\* a caller converts a state word to its legacy phase
ConvertNewToLegacy ==
    /\ pc = "status"
    /\ statusIn.kind = "str"
    /\ Len(converted) < MaxConversions
    /\ converted' = Append(converted, [fn |-> "convert_new_to_legacy",
                                       arg |-> ConversionArg,
                                       res |-> convert_new_to_legacy(ConversionArg)])
    /\ UNCHANGED <<statusIn, statusOut, statusOut2, nodes, overall, pc>>
    /\ UNCHANGED <<assetVars, mergeVars, engineVars, checkVars>>

NextStatus == Normalize \/ NormalizeAgain \/ ConvertLegacyToNew \/ ConvertNewToLegacy

SpecStatus == InitStatus /\ [][NextStatus]_vars

(***************************************************************************)
(* calculate_overall_status on any list of nodes                           *)
(***************************************************************************)
InitOverall ==
    /\ statusIn = [kind |-> "none"]
    /\ statusOut = <<>>
    /\ statusOut2 = <<>>
    /\ converted = <<>>
    /\ nodes \in SeqsUpTo(NodeValues, MaxNodes)
    /\ overall = <<>>
    /\ AssetIdle
    /\ MergeIdle
    /\ EngineIdle
    /\ ChecksIdle
    /\ pc = "overall"

CalculateOverallStatus ==
    /\ pc = "overall"
    /\ overall' = <<calculate_overall_status(nodes)>>
    /\ pc' = "overall_done"
    /\ UNCHANGED <<statusIn, statusOut, statusOut2, converted, nodes>>
    /\ UNCHANGED <<assetVars, mergeVars, engineVars, checkVars>>

NextOverall == CalculateOverallStatus

SpecOverall == InitOverall /\ [][NextOverall]_vars

(***************************************************************************)
(* normalize_asset_status on an asset that is scanned, changes in one      *)
(* input and is scanned again                                              *)
(***************************************************************************)
InitAsset ==
    /\ UtilsIdle
    /\ MergeIdle
    /\ assetIn \in Assets
    /\ scans = <<>>
    /\ EngineIdle
    /\ ChecksIdle
    /\ pc = "asset"

\* convert_power_to_v3 normalises the asset's status
NormalizeAssetStatus ==
    /\ pc = "asset"
    /\ Len(scans) < MaxScans
    /\ IF scans = <<>> THEN TRUE ELSE scans[Len(scans)].asset # assetIn
    /\ scans' = Append(scans, [asset |-> assetIn,
                               status |-> normalize_asset_status(assetIn)])
    /\ UNCHANGED <<assetIn, pc>>
    /\ UNCHANGED <<utilsVars, mergeVars, engineVars, checkVars>>

\* the scanner reports the asset again with one input changed
RescanAsset ==
    /\ pc = "asset"
    /\ Len(scans) < MaxScans
    /\ scans # <<>>
    /\ scans[Len(scans)].asset = assetIn
    /\ assetIn' \in OneInputChanged(assetIn)
    /\ UNCHANGED <<scans, pc>>
    /\ UNCHANGED <<utilsVars, mergeVars, engineVars, checkVars>>

NextAsset == NormalizeAssetStatus \/ RescanAsset

SpecAsset == InitAsset /\ [][NextAsset]_vars

(***************************************************************************)
(* create_unified_config on any list of loaded source configs              *)
(***************************************************************************)
InitMerge ==
    /\ UtilsIdle
    /\ AssetIdle
    /\ sources \in SeqsUpTo(SourceConfigs, MaxSources)
    /\ all_configs = sources
    /\ unified = <<>>
    /\ merge_raised = FALSE
    /\ EngineIdle
    /\ ChecksIdle
    /\ pc = "merge"

\* one call of create_unified_config on the configs, which it changes in
\* place; `unified` keeps what it returned as it stood on return
UnifiedConfigOf(configs) ==
    /\ all_configs' = ConfigsAsLeft(configs)
    /\ IF UnifiedConfigRaises(configs)
       THEN /\ merge_raised' = TRUE
            /\ UNCHANGED unified
       ELSE /\ \E order \in TagOrders :
                  unified' = Append(unified, create_unified_config(configs, order))
            /\ UNCHANGED merge_raised
    /\ UNCHANGED sources
    /\ UNCHANGED <<utilsVars, assetVars, engineVars, checkVars>>

\* create_unified_config() on the aggregator as it stands
CreateUnifiedConfig ==
    /\ \/ pc = "merge"
       \/ pc = "aggregator" /\ all_configs # <<>> /\ Len(unified) < MaxMerges
    /\ ~merge_raised
    /\ UnifiedConfigOf(all_configs)
    /\ pc' = IF pc = "merge" THEN "merged" ELSE pc

NextMerge == CreateUnifiedConfig

SpecMerge == InitMerge /\ [][NextMerge]_vars

(***************************************************************************)
(* An aggregator run once or more on the same status files                 *)
(***************************************************************************)
InitAggregator ==
    /\ UtilsIdle
    /\ AssetIdle
    /\ sources \in SeqsUpTo(StatusFileConfigs, MaxStatusFiles)
    /\ all_configs = <<>>
    /\ unified = <<>>
    /\ merge_raised = FALSE
    /\ EngineIdle
    /\ ChecksIdle
    /\ pc = "aggregator"

\* aggregate(): every status file is loaded and appended to all_configs, then
\* the unified config is created and saved
AggregateStatusFiles ==
    /\ pc = "aggregator"
    /\ Len(unified) < MaxMerges
    /\ UnifiedConfigOf(all_configs \o sources)
    /\ UNCHANGED pc

NextAggregator == AggregateStatusFiles \/ CreateUnifiedConfig

SpecAggregator == InitAggregator /\ [][NextAggregator]_vars

(***************************************************************************)
(* _evaluate_quality_gate on any gate and any list of results              *)
(***************************************************************************)
InitGate ==
    /\ StatusIdle
    /\ ChecksIdle
    /\ enabled = <<>>
    /\ outcomes = <<>>
    /\ validation_results \in SeqsUpTo(DirectResults, MaxResults)
    /\ gate \in DirectGates
    /\ quality_gate_results = <<>>
    /\ report = <<>>
    /\ raised = FALSE
    /\ pc = "gate"

EvaluateGate ==
    /\ pc = "gate"
    /\ quality_gate_results' = <<_evaluate_quality_gate(gate, validation_results)>>
    /\ pc' = "gate_done"
    /\ UNCHANGED <<enabled, outcomes, validation_results, gate, report, raised>>
    /\ UNCHANGED <<statusVars, checkVars>>

NextGate == EvaluateGate

SpecGate == InitGate /\ [][NextGate]_vars

(***************************************************************************)
(* The report's figures on any list of results and any list of verdicts    *)
(***************************************************************************)
InitAggregate ==
    /\ StatusIdle
    /\ ChecksIdle
    /\ enabled = <<>>
    /\ outcomes = <<>>
    /\ validation_results \in SeqsUpTo(DirectResults, MaxResults)
    /\ gate = <<>>
    /\ quality_gate_results \in SeqsUpTo(DirectVerdicts, MaxVerdicts)
    /\ report = <<>>
    /\ raised = FALSE
    /\ pc = "aggregate"

Aggregate ==
    /\ pc = "aggregate"
    /\ report' = <<BuildReport(validation_results, quality_gate_results)>>
    /\ pc' = "aggregate_done"
    /\ UNCHANGED <<enabled, outcomes, validation_results, gate,
                   quality_gate_results, raised>>
    /\ UNCHANGED <<statusVars, checkVars>>

NextAggregate == Aggregate

SpecAggregate == InitAggregate /\ [][NextAggregate]_vars

(***************************************************************************)
(* validate_workflow_execution: every check does `base`, except at most    *)
(* MaxDeviations rules, each disabled or doing something else              *)
(***************************************************************************)
InitRun ==
    /\ StatusIdle
    /\ ChecksIdle
    /\ \E base \in BaseOutcomes, D \in RuleSetsUpTo(MaxDeviations) :
          \E f \in [D -> RuleChoices] :
             /\ enabled = RunInput(base, D, f).enabled
             /\ outcomes = RunInput(base, D, f).outcomes
    /\ validation_results = <<>>
    /\ gate = <<>>
    /\ quality_gate_results = <<>>
    /\ report = <<>>
    /\ raised = FALSE
    /\ pc = "validate"

\* the whole call: the rules, the gates, the figures, the report. Nothing
\* past the rule loop can fault on results and verdicts built by this code,
\* so the outer handler (which re-raises) is never entered.
ValidateWorkflowExecution ==
    /\ pc = "validate"
    /\ LET results == RunRules(1, enabled, outcomes)
           gates == EvaluateGates(QualityGates, results)
       IN  /\ validation_results' = results
           /\ quality_gate_results' = gates
           /\ report' = <<BuildReport(results, gates)>>
    /\ raised' = FALSE
    /\ pc' = "validated"
    /\ UNCHANGED <<enabled, outcomes, gate>>
    /\ UNCHANGED <<statusVars, checkVars>>

NextRun == ValidateWorkflowExecution

SpecRun == InitRun /\ [][NextRun]_vars

(***************************************************************************)
(* The checks of the semantic and the performance rules, and the whole     *)
(* validation, on any report; the checks of the other rules find nothing   *)
(* wrong                                                                   *)
(***************************************************************************)
InitChecks ==
    /\ StatusIdle
    /\ enabled = [r \in RuleIds |-> TRUE]
    /\ outcomes = [r \in RuleIds |-> NothingWrong]
    /\ validation_results = <<>>
    /\ gate = <<>>
    /\ quality_gate_results = <<>>
    /\ report = <<>>
    /\ raised = FALSE
    /\ \/ /\ execution_data \in StatusData
          /\ payload_size = SmallSize
       \/ /\ execution_data \in GraphData
          /\ payload_size = SmallSize
       \/ /\ execution_data \in TimedData
          /\ payload_size \in PayloadSizes
    /\ rule_result = <<>>
    /\ pc = "check"

\* _execute_validation_rule for one rule on the report
ExecuteRule(rule_id) ==
    /\ rule_result' = <<_execute_validation_rule(
                           rule_id,
                           CheckOutcome(rule_id, execution_data, payload_size, outcomes)).result>>
    /\ pc' = "checked"
    /\ UNCHANGED <<execution_data, payload_size>>
    /\ UNCHANGED <<statusVars, engineVars>>

ValidateStatusConsistency ==
    /\ pc = "check"
    /\ ExecuteRule("semantic_status_consistency")

ValidateDependencyValidity ==
    /\ pc = "check"
    /\ ExecuteRule("semantic_dependency_validity")

ValidateRelationshipCoherence ==
    /\ pc = "check"
    /\ ExecuteRule("semantic_relationship_coherence")

ValidateResponseTime ==
    /\ pc = "check"
    /\ ExecuteRule("performance_response_time")

ValidateMemoryUsage ==
    /\ pc = "check"
    /\ ExecuteRule("performance_memory_usage")

\* validate_workflow_execution on the report, with the default registries
ValidateExecutionData ==
    /\ pc = "check"
    /\ LET outs == [r \in RuleIds |->
                      CheckOutcome(r, execution_data, payload_size, outcomes)]
           results == RunRules(1, enabled, outs)
           gates == EvaluateGates(QualityGates, results)
       IN  /\ validation_results' = results
           /\ quality_gate_results' = gates
           /\ report' = <<BuildReport(results, gates)>>
    /\ raised' = FALSE
    /\ pc' = "data_validated"
    /\ UNCHANGED <<enabled, outcomes, gate>>
    /\ UNCHANGED <<statusVars, checkVars>>

NextChecks ==
    \/ ValidateStatusConsistency
    \/ ValidateDependencyValidity
    \/ ValidateRelationshipCoherence
    \/ ValidateResponseTime
    \/ ValidateMemoryUsage
    \/ ValidateExecutionData

SpecChecks == InitChecks /\ [][NextChecks]_vars

(***************************************************************************)
(* validate_workflow_execution with the rules run in any order: the loop   *)
(* over the registry appends the result of one enabled rule after the      *)
(* other, and the gates and the report are made from the list once every   *)
(* enabled rule has run. The report's two figures are floats.              *)
(***************************************************************************)
\* the rules that may be enabled: one whose check is modelled and two whose
\* checks return what `outcomes` says
FanOutRules == {"semantic_status_consistency", "syntax_json_valid",
                "quality_reliability"}

FanOutReturns ==
    CheckReturns \cup {[kind |-> "returns", status |-> PASSED, score |-> Rat(9, 10)]}

\* reports with one asset, consistent, and with a second one that is not
FanOutData ==
    {[assets |-> <<[id |-> "a", type |-> "component.ui", status |-> Built]>>],
     [assets |-> <<[id |-> "a", type |-> "component.ui", status |-> Built],
                   [id |-> "b", type |-> "component.ui",
                    status |-> AsDict([state |-> "built", progress |-> 50])]>>]}

InitFanOut ==
    /\ StatusIdle
    /\ \E D \in SUBSET FanOutRules : enabled = [r \in RuleIds |-> r \in D]
    /\ \E f \in [FanOutRules \ CheckedRules -> FanOutReturns] :
           outcomes = [r \in RuleIds |-> IF r \in DOMAIN f THEN f[r] ELSE NothingWrong]
    /\ validation_results = <<>>
    /\ gate = <<>>
    /\ quality_gate_results = <<>>
    /\ report = <<>>
    /\ raised = FALSE
    /\ execution_data \in FanOutData
    /\ payload_size = SmallSize
    /\ rule_result = <<>>
    /\ pc = "fan_out"

\* "Run all validation rules", one turn of the loop: an enabled rule that has
\* not run yet is executed on the report and its result appended
ExecuteNextRule ==
    /\ pc = "fan_out"
    /\ \E rule_id \in RuleIds :
           /\ enabled[rule_id]
           /\ FirstResult(validation_results, rule_id) = <<>>
           /\ validation_results' =
                  Append(validation_results,
                         _execute_validation_rule(
                             rule_id,
                             CheckOutcome(rule_id, execution_data, payload_size,
                                          outcomes)).result)
    /\ UNCHANGED <<enabled, outcomes, gate, quality_gate_results, report, raised, pc>>
    /\ UNCHANGED <<statusVars, checkVars>>

\* "Evaluate quality gates" to "Create validation report", once the loop is over
SynthesizeReport ==
    /\ pc = "fan_out"
    /\ \A rule_id \in RuleIds :
           enabled[rule_id] => FirstResult(validation_results, rule_id) # <<>>
    /\ LET gates == EvaluateGates(QualityGates, validation_results)
       IN  /\ quality_gate_results' = gates
           /\ report' = <<FloatReport(validation_results, gates)>>
    /\ pc' = "fan_in"
    /\ UNCHANGED <<enabled, outcomes, validation_results, gate, raised>>
    /\ UNCHANGED <<statusVars, checkVars>>

NextFanOut == ExecuteNextRule \/ SynthesizeReport

SpecFanOut == InitFanOut /\ [][NextFanOut]_vars


(***************************************************************************)
(* Properties                                                              *)
(***************************************************************************)
\* sum of F[i] over the finite set S
RECURSIVE RatSumOver(_, _)
RatSumOver(S, F) ==
    IF S = {} THEN Zero
    ELSE LET i == CHOOSE j \in S : TRUE
         IN  RatAdd(F[i], RatSumOver(S \ {i}, F))

Aggregated == pc = "aggregate_done"
GateEvaluated == pc = "gate_done"
Validated == pc = "validated"

SomeResultIs(status) ==
    \E i \in DOMAIN validation_results : validation_results[i].status = status

SomeGateFailed ==
    \E i \in DOMAIN quality_gate_results : ~quality_gate_results[i].passed

\* C1: the overall status is error if some result is in error; otherwise
\* failed if some gate verdict did not pass; otherwise warning if some result
\* is a warning; otherwise passed.
C1_OverallStatusCascade ==
    Aggregated =>
        report[1].overall_status =
            IF SomeResultIs(ERROR) THEN ERROR
            ELSE IF SomeGateFailed THEN FAILED
            ELSE IF SomeResultIs(WARNING) THEN WARNING
            ELSE PASSED

\* a failed gate together with a warning and no error: the order decides
C1_Witness ==
    /\ Aggregated
    /\ ~SomeResultIs(ERROR)
    /\ SomeGateFailed
    /\ SomeResultIs(WARNING)
    /\ report[1].overall_status = FAILED

\* C2: the score of a gate verdict lies in [0, 1], and the gate passed exactly
\* when its score is at least the gate's threshold.
C2_GateScoreRangeAndPass ==
    GateEvaluated =>
        LET v == quality_gate_results[1]
        IN  /\ RatLeq(Zero, v.score)
            /\ RatLeq(v.score, One)
            /\ v.passed <=> RatGeq(v.score, gate.threshold)

\* a score equal to a threshold between 0 and 1, reached from a real result
C2_Witness ==
    /\ GateEvaluated
    /\ quality_gate_results[1].rule_results # <<>>
    /\ quality_gate_results[1].score = gate.threshold
    /\ RatLt(Zero, gate.threshold)
    /\ RatLt(gate.threshold, One)
    /\ quality_gate_results[1].passed

\* the positions of gate.rules whose rule has a result
MatchedPositions(g, results) ==
    {i \in DOMAIN g.rules : \E j \in DOMAIN results : results[j].rule_id = g.rules[i]}

\* the result of a rule: the first one in the list with its id
ResultOf(results, rule_id) ==
    results[CHOOSE j \in DOMAIN results :
                /\ results[j].rule_id = rule_id
                /\ \A k \in 1..(j - 1) : results[k].rule_id # rule_id]

\* weight of a rule: the registry's, 1.0 for a rule that is not in it
ClaimedWeight(rule_id) ==
    IF rule_id \in RuleIds THEN RuleWeight[rule_id] ELSE Rat(1, 1)

\* the weighted average over the gate's rules that have a result (0 without any)
MatchedAverage(g, results) ==
    LET M == MatchedPositions(g, results)
        num == RatSumOver(M, [i \in M |->
                   RatMul(ResultOf(results, g.rules[i]).score, ClaimedWeight(g.rules[i]))])
        den == RatSumOver(M, [i \in M |-> ClaimedWeight(g.rules[i])])
    IN  IF M = {} THEN Zero ELSE RatDiv(num, den)

UnmatchedIds(results) ==
    {u \in DirectRuleIds : \A j \in DOMAIN results : results[j].rule_id # u}

\* gate.rules without the rule ids that have no result
RECURSIVE WithoutIds(_, _)
WithoutIds(rules, ids) ==
    IF rules = <<>> THEN <<>>
    ELSE IF Head(rules) \in ids THEN WithoutIds(Tail(rules), ids)
    ELSE <<Head(rules)>> \o WithoutIds(Tail(rules), ids)

\* C3: the gate score is the weighted average over the gate's rules that have
\* a result; adding a rule id without a result to gate.rules, or removing
\* those it lists, leaves the score unchanged.
C3_UnmatchedRulesExcluded ==
    GateEvaluated =>
        LET score == quality_gate_results[1].score
            unmatched == UnmatchedIds(validation_results)
        IN  /\ score = MatchedAverage(gate, validation_results)
            /\ \A u \in unmatched :
                  _evaluate_quality_gate([gate EXCEPT !.rules = Append(@, u)],
                                         validation_results).score = score
            /\ _evaluate_quality_gate([gate EXCEPT !.rules = WithoutIds(@, unmatched)],
                                      validation_results).score = score

\* a gate listing a rule without a result beside one with a positive score
C3_Witness ==
    /\ GateEvaluated
    /\ \E i \in DOMAIN gate.rules : gate.rules[i] \in UnmatchedIds(validation_results)
    /\ quality_gate_results[1].rule_results # <<>>
    /\ RatLt(Zero, quality_gate_results[1].score)

EnabledRules == {r \in RuleIds : enabled[r]}

ResultPositions(rule_id) ==
    {i \in DOMAIN validation_results : validation_results[i].rule_id = rule_id}

\* C4: after the run, every enabled rule has exactly one result and a disabled
\* rule has none; the result of a rule whose check faulted is in error with
\* score 0, and every other rule, also after a faulting one, has the result
\* its check returned.
C4_FaultIsolation ==
    Validated =>
        /\ Len(validation_results) = Cardinality(EnabledRules)
        /\ \A r \in RuleIds :
              Cardinality(ResultPositions(r)) = IF enabled[r] THEN 1 ELSE 0
        /\ \A i \in DOMAIN validation_results :
              LET res == validation_results[i]
                  out == outcomes[res.rule_id]
              IN  IF out.kind = "raises"
                  THEN res.status = ERROR /\ res.score = Zero
                  ELSE res.status = out.status /\ res.score = out.score

\* a check faults, a later rule's check returns, and a rule is disabled
C4_Witness ==
    /\ Validated
    /\ \E r \in RuleIds : ~enabled[r]
    /\ \E i, j \in DOMAIN validation_results :
          /\ i < j
          /\ outcomes[validation_results[i].rule_id].kind = "raises"
          /\ validation_results[i].status = ERROR
          /\ validation_results[j].status = PASSED

AllResultsInError ==
    /\ validation_results # <<>>
    /\ \A i \in DOMAIN validation_results : validation_results[i].status = ERROR

\* C5: the run ends with a report and without raising; when every result is
\* in error the report has overall status error, reliability 0, confidence 0
\* and no gate passed.
C5_ReportAlwaysReturned ==
    Validated =>
        /\ Len(report) = 1
        /\ ~raised
        /\ AllResultsInError =>
              /\ report[1].overall_status = ERROR
              /\ report[1].reliability_score = Zero
              /\ report[1].confidence_level = Zero
              /\ report[1].quality_gates_passed = 0
              /\ report[1].total_quality_gates = Len(QualityGates)

\* every rule ran and every check faulted
C5_Witness ==
    /\ Validated
    /\ \A r \in RuleIds : enabled[r] /\ outcomes[r].kind = "raises"
    /\ Len(validation_results) = Len(RuleOrder)
    /\ report[1].overall_status = ERROR

\* the weight-weighted average of the rule scores (0 without results)
WeightedAverage ==
    LET P == DOMAIN validation_results
        num == RatSumOver(P, [i \in P |->
                   RatMul(validation_results[i].score,
                          RuleWeight[validation_results[i].rule_id])])
        den == RatSumOver(P, [i \in P |-> RuleWeight[validation_results[i].rule_id]])
    IN  IF P = {} THEN Zero ELSE RatDiv(num, den)

\* the fraction of the evaluated gates that passed
GatePassRate ==
    Rat(Cardinality({i \in DOMAIN quality_gate_results : quality_gate_results[i].passed}),
        Len(quality_gate_results))

\* C6: the report's reliability score is 100 * (0.7 * W + 0.3 * G) and lies
\* in [0, 100].
C6_ReliabilityFormula ==
    Validated =>
        /\ report[1].reliability_score =
              RatMul(Rat(100, 1), RatAdd(RatMul(Rat(7, 10), WeightedAverage),
                                         RatMul(Rat(3, 10), GatePassRate)))
        /\ RatLeq(Zero, report[1].reliability_score)
        /\ RatLeq(report[1].reliability_score, Rat(100, 1))

\* some gates passed, some failed, and the rule scores differ
C6_Witness ==
    /\ Validated
    /\ RatLt(Zero, GatePassRate)
    /\ RatLt(GatePassRate, One)
    /\ RatLt(Zero, WeightedAverage)
    /\ RatLt(WeightedAverage, One)
    /\ RatLt(report[1].reliability_score, Rat(100, 1))

\* the mean of the scores above 0 (0 when there is none)
PositiveMean ==
    LET P == {i \in DOMAIN validation_results : RatLt(Zero, validation_results[i].score)}
    IN  IF P = {} THEN Zero
        ELSE RatDiv(RatSumOver(P, [i \in P |-> validation_results[i].score]),
                    Rat(Cardinality(P), 1))

C8_NormalizeIdempotent ==
    statusOut2 # <<>> => statusOut2 = statusOut

\* a legacy dict whose progress is not the default of its state, normalised twice
C8_Witness ==
    /\ statusOut2 # <<>>
    /\ statusIn.kind = "dict"
    /\ "phase" \in DOMAIN statusIn.d
    /\ "state" \notin DOMAIN statusIn.d
    /\ statusOut[1].progress # Get(STATUS_PROGRESS, statusOut[1].state, 0)

\* C9: every normalised status has legacy.phase, which is the NEW_TO_LEGACY
\* value of its state (gray for a state the table does not list).
C9_LegacyPhaseDerivedFromState ==
    statusOut # <<>> =>
        LET out == statusOut[1]
        IN  /\ "phase" \in DOMAIN out.legacy
            /\ out.legacy.phase = IF out.state \in DOMAIN NEW_TO_LEGACY
                                  THEN NEW_TO_LEGACY[out.state] ELSE "gray"

\* C10: every normalised status has one of the six states and an integer
\* progress in [0, 100].
C10_StateAndProgressInRange ==
    statusOut # <<>> =>
        /\ statusOut[1].state \in NodeStatus
        /\ statusOut[1].progress \in 0..100

\* the status is missing or unknown: None, a value that is neither a string
\* nor a dict, a dict with neither state nor phase, or a string that is
\* neither a state nor a phase
UnknownInput(status) ==
    \/ status.kind \in {"none", "other"}
    \/ status.kind = "dict" /\ "state" \notin DOMAIN status.d
                            /\ "phase" \notin DOMAIN status.d
    \/ status.kind = "str" /\ status.s \notin NodeStatus \cup LegacyStatus

\* C11: a missing or unknown status is normalised to state backlogged,
\* progress 0 and legacy.phase gray.
C11_UnknownInputDefaults ==
    (statusOut # <<>> /\ UnknownInput(statusIn)) =>
        /\ statusOut[1].state = "backlogged"
        /\ statusOut[1].progress = 0
        /\ statusOut[1].legacy = [phase |-> "gray"]

\* the status is a legacy-format dict
LegacyDictInput(status) ==
    /\ status.kind = "dict"
    /\ "phase" \in DOMAIN status.d
    /\ "state" \notin DOMAIN status.d

\* C12: a legacy-format dict is normalised to state = LEGACY_TO_NEW[phase]
\* (backlogged for a phase the table does not list), progress =
\* round(completeness * 100), the given qualityScore and the given phase.
C12_LegacyDictRounded ==
    (statusOut # <<>> /\ LegacyDictInput(statusIn)) =>
        LET d == statusIn.d
            out == statusOut[1]
        IN  /\ out.state = Get(LEGACY_TO_NEW, d["phase"], "backlogged")
            /\ out.progress = Round(Get(d, "completeness", 500) * 100, 1000)
            /\ "qualityScore" \in DOMAIN d =>
                   out.quality.qualityScore = d["qualityScore"]
            /\ out.legacy.phase = d["phase"]

\* the word is converted by `first` at position i and the result by `second`
RoundTripAt(i, first, second) ==
    /\ i \in DOMAIN converted
    /\ i + 1 \in DOMAIN converted
    /\ converted[i].fn = first
    /\ converted[i + 1].fn = second

\* C13: legacy -> new -> legacy gives every phase back; new -> legacy -> new
\* gives built, building, broken and backlogged back, and gives building for
\* blocked and backlogged for burned.
C13_ConversionRoundTrips ==
    \A i \in DOMAIN converted :
        /\ (RoundTripAt(i, "convert_legacy_to_new", "convert_new_to_legacy")
               /\ converted[i].arg \in LegacyStatus)
              => converted[i + 1].res = converted[i].arg
        /\ (RoundTripAt(i, "convert_new_to_legacy", "convert_legacy_to_new")
               /\ converted[i].arg \in NodeStatus)
              => converted[i + 1].res =
                    IF converted[i].arg = "blocked" THEN "building"
                    ELSE IF converted[i].arg = "burned" THEN "backlogged"
                    ELSE converted[i].arg

\* blocked taken to its phase and back, which gives building
C13_Witness ==
    /\ RoundTripAt(1, "convert_new_to_legacy", "convert_legacy_to_new")
    /\ converted[1].arg = "blocked"
    /\ converted[2].res = "building"

\* the normalised status of node i
NodeInfo(i) == normalize_status(NodeStatusOf(nodes[i]))

\* the number of nodes in state st
NodesIn(st) == Cardinality({i \in DOMAIN nodes : NodeInfo(i).state = st})

\* the sum of the nodes' progress
RECURSIVE ProgressSum(_)
ProgressSum(S) ==
    IF S = {} THEN 0
    ELSE LET i == CHOOSE j \in S : TRUE
         IN  NodeInfo(i).progress + ProgressSum(S \ {i})

\* q is the floor of a / b, b > 0
IsFloorOf(q, a, b) == q * b <= a /\ a < (q + 1) * b

OverallDone == pc = "overall_done"

\* C14: calculate_overall_status gives (backlogged, 0) for no nodes; else
\* progress is the floor of the mean progress and the state is: broken if any
\* node is broken; else blocked if more than 30% are blocked; else building if
\* any is building; else built if all are built; else backlogged if more than
\* 50% are backlogged; else building.
C14_OverallStatusCascade ==
    OverallDone =>
        LET n == Len(nodes)
            out == overall[1]
        IN  IF n = 0
            THEN out.state = "backlogged" /\ out.progress = 0
            ELSE /\ IsFloorOf(out.progress, ProgressSum(DOMAIN nodes), n)
                 /\ out.state =
                       CASE NodesIn("broken") > 0 -> "broken"
                         [] NodesIn("broken") = 0 /\ 10 * NodesIn("blocked") > 3 * n
                              -> "blocked"
                         [] OTHER ->
                              IF NodesIn("building") > 0 THEN "building"
                              ELSE IF NodesIn("built") = n THEN "built"
                              ELSE IF 2 * NodesIn("backlogged") > n THEN "backlogged"
                              ELSE "building"

\* one node in four blocked (not more than 30%) beside a building one, with a
\* mean progress that is not a whole number
C14_Witness ==
    /\ OverallDone
    /\ Len(nodes) = 4
    /\ NodesIn("blocked") = 1
    /\ NodesIn("broken") = 0
    /\ NodesIn("building") > 0
    /\ ProgressSum(DOMAIN nodes) % 4 # 0
    /\ overall[1].state = "building"

\* the value of input k of an asset: the activity count, the centrality
\* score, the connectivity count or the author count (0 when absent)
InputValue(asset, k) ==
    IF GivenInput(asset, k) = <<>> THEN Zero
    ELSE IF k = "centralityScore" THEN GivenInput(asset, k)[1]
    ELSE IF k = "authors" THEN Rat(Len(GivenInput(asset, k)[1]), 1)
    ELSE Rat(GivenInput(asset, k)[1], 1)

\* min(commits/50, 1) * 0.40 + clamp(centrality, 0, 1) * 0.25
\* + min(edges/20, 1) * 0.20 + min(authors/5, 1) * 0.15, clamped to [0, 1]
ClampedSum(asset) ==
    LET share(k, cap) == RatMin(RatDiv(InputValue(asset, k), Rat(cap, 1)), One)
        total == RatAdd(RatAdd(RatMul(share("activityLast30Days", 50), Rat(2, 5)),
                               RatMul(RatMax(Zero, RatMin(InputValue(asset, "centralityScore"),
                                                          One)),
                                      Rat(1, 4))),
                        RatAdd(RatMul(share("connectivity", 20), Rat(1, 5)),
                               RatMul(share("authors", 5), Rat(3, 20))))
    IN  RatMax(Zero, RatMin(total, One))

\* x rounded to 3 decimals is r
IsRounded3(r, x) ==
    /\ 1000 % r.d = 0
    /\ RatLeq(RatAdd(x, Rat(-1, 2000)), r)
    /\ RatLeq(r, RatAdd(x, Rat(1, 2000)))

\* scan j has input k at least as high as scan i and the other inputs equal
RaisedIn(i, j, k) ==
    /\ RatLeq(InputValue(scans[i].asset, k), InputValue(scans[j].asset, k))
    /\ \A o \in InputKeys \ {k} :
          InputValue(scans[i].asset, o) = InputValue(scans[j].asset, o)

ReliabilityInRangeAndMonotonic ==
    /\ \A i \in DOMAIN scans :
          /\ RatLeq(Zero, scans[i].status.reliability)
          /\ RatLeq(scans[i].status.reliability, One)
    /\ \A i, j \in DOMAIN scans : \A k \in InputKeys :
          RaisedIn(i, j, k) =>
              RatLeq(scans[i].status.reliability, scans[j].status.reliability)

\* C15, as claimed: the reliability lies in [0, 1], does not decrease when one
\* input is raised and the others are kept, and is the clamped sum of the four
\* weighted shares.
C15_ReliabilityIsClampedSum ==
    /\ ReliabilityInRangeAndMonotonic
    /\ \A i \in DOMAIN scans :
          scans[i].status.reliability = ClampedSum(scans[i].asset)

\* C15, amended: the reliability lies in [0, 1], does not decrease when one
\* input is raised and the others are kept, and is the clamped sum of the four
\* weighted shares rounded to 3 decimals.
C15_ReliabilityIsRoundedClampedSum ==
    /\ ReliabilityInRangeAndMonotonic
    /\ \A i \in DOMAIN scans :
          IsRounded3(scans[i].status.reliability, ClampedSum(scans[i].asset))

\* a centrality raised from 0.333 to 1.5 between two scans: the first sum
\* has more than 3 decimals, the second has the centrality share capped
C15_Witness ==
    /\ Len(scans) = 2
    /\ RaisedIn(1, 2, "centralityScore")
    /\ InputValue(scans[1].asset, "centralityScore") = Rat(333, 1000)
    /\ InputValue(scans[2].asset, "centralityScore") = Rat(3, 2)
    /\ scans[1].status.reliability # ClampedSum(scans[1].asset)
    /\ RatLt(scans[1].status.reliability, scans[2].status.reliability)

\* the four fields in the order of their evidence entries
EvidenceOrder == <<"activityLast30Days", "centralityScore", "connectivity", "authors">>

\* the fields of EvidenceOrder[i..] that are present on the asset, in order
RECURSIVE PresentFields(_, _)
PresentFields(asset, i) ==
    IF i > Len(EvidenceOrder) THEN <<>>
    ELSE (IF GivenInput(asset, EvidenceOrder[i]) # <<>>
          THEN <<EvidenceOrder[i]>> ELSE <<>>)
         \o PresentFields(asset, i + 1)

\* the per-field normalised value: the capped share of the count, or the
\* centrality clamped to [0, 1]
NormalisedValue(asset, k) ==
    IF k = "centralityScore"
    THEN RatMax(Zero, RatMin(InputValue(asset, k), One))
    ELSE RatMin(RatDiv(InputValue(asset, k),
                       Rat(CASE k = "activityLast30Days" -> 50
                             [] k = "connectivity" -> 20
                             [] OTHER -> 5, 1)),
                One)

\* the evidence attached at scan i (none attached when there is none)
EvidenceAt(i) == Get(scans[i].status, "evidence", <<>>)

\* C16: the evidence has exactly one entry for each of the four fields that
\* is present on the asset and none for an absent one, in the fixed order;
\* each score is the per-field normalised value and lies in [0, 1]. (The
\* function only reads the asset, so the asset is as it was.)
C16_EvidencePerPresentField ==
    \A i \in DOMAIN scans :
        LET present == PresentFields(scans[i].asset, 1)
            evidence == EvidenceAt(i)
        IN  /\ Len(evidence) = Len(present)
            /\ \A e \in DOMAIN evidence :
                  /\ e \in DOMAIN present
                  /\ evidence[e].type = present[e]
                  /\ evidence[e].score = NormalisedValue(scans[i].asset, present[e])
                  /\ RatLeq(Zero, evidence[e].score)
                  /\ RatLeq(evidence[e].score, One)

\* the first unified config has been created
Merged == unified # <<>>

\* the number of edges of the source configs i..
RECURSIVE InputEdgeCount(_)
InputEdgeCount(i) ==
    IF i > Len(sources) THEN 0
    ELSE Len(Get(sources[i], "edges", <<>>)) + InputEdgeCount(i + 1)

\* the inferred edges of the unified config: those after the sources' edges
InferredEdges ==
    LET es == unified[1].edges
    IN  {es[k] : k \in (InputEdgeCount(1) + 1)..Len(es)}

\* the id of the root synthesised for source i (sources counted from 1)
RootId(i) == "project-" \o ToString(i - 1)

RootIds == {RootId(i) : i \in DOMAIN sources}

\* the root node of source i in the unified config
RootNode(i) ==
    CHOOSE n \in Range(unified[1].nodes) :
        n.id = RootId(i) /\ n.type = "service.repository" /\ "nodeId" \in DOMAIN n.metadata

\* the topics and the language of source i
SourceTopics(i) == Range(Get(Get(sources[i], "metadata", EmptyDict), "topics", <<>>))
SourceLanguage(i) == Get(Get(sources[i], "metadata", EmptyDict), "language", "")

\* the roots of sources i and j qualify for an inferred edge as they stand
\* in the unified config: common tags, or the same language
RootsQualify(i, j) ==
    \/ Range(RootNode(i).tags) \cap Range(RootNode(j).tags) # {}
    \/ /\ Get(RootNode(i).metadata, "language", "") # ""
       /\ Get(RootNode(i).metadata, "language", "")
             = Get(RootNode(j).metadata, "language", "")

\* C17: the unified config has the sources' edges plus exactly one inferred
\* edge for each qualifying unordered pair of source roots, and no inferred
\* edge touches a node that is not a source root.
C17_EdgeCount ==
    Merged =>
        /\ Len(unified[1].edges) =
              InputEdgeCount(1)
              + Cardinality({p \in (DOMAIN sources) \X (DOMAIN sources) :
                               p[1] < p[2] /\ RootsQualify(p[1], p[2])})
        /\ \A e \in InferredEdges : e.from \in RootIds /\ e.to \in RootIds

\* the inferred edges between the roots of sources i and j
EdgesBetween(i, j) ==
    {e \in InferredEdges : {e.from, e.to} = {RootId(i), RootId(j)}}

\* the label names one or two of the tags
NamesUpToTwoOf(label, tags) ==
    \E a, b \in tags : label = "Shared: " \o a \/ (a # b /\ label = "Shared: " \o a \o ", " \o b)

\* C18: for every unordered pair of source roots: with common tags exactly
\* one relatedTo edge of strength 0.3 whose label names at most 2 of them;
\* else with the same primary language exactly one relatedTo edge of strength
\* 0.2; else none.
C18_InferredEdgeRule ==
    Merged =>
        \A i, j \in DOMAIN sources :
            i < j =>
                LET shared == SourceTopics(i) \cap SourceTopics(j)
                    between == EdgesBetween(i, j)
                IN  IF shared # {}
                    THEN /\ Cardinality(between) = 1
                         /\ \A e \in between :
                               /\ e.type = "relatedTo"
                               /\ e.strength = Rat(3, 10)
                               /\ NamesUpToTwoOf(e.label, shared)
                    ELSE IF SourceLanguage(i) # "" /\ SourceLanguage(i) = SourceLanguage(j)
                    THEN /\ Cardinality(between) = 1
                         /\ \A e \in between :
                               e.type = "relatedTo" /\ e.strength = Rat(2, 10)
                    ELSE between = {}

\* the positions in the unified node list of the nodes embedded from source i
RECURSIVE NodesBefore(_)
NodesBefore(i) ==
    IF i = 1 THEN 0
    ELSE NodesBefore(i - 1) + 1 + Len(Get(sources[i - 1], "nodes", <<>>))

\* the name source i goes by
SourceName(i) == Get(sources[i], "projectName", "Project-" \o ToString(i - 1))

\* the node ids of every source are pairwise distinct
DistinctWithinSources ==
    \A i \in DOMAIN sources :
        LET ns == Get(sources[i], "nodes", <<>>)
        IN  \A a, b \in DOMAIN ns : a # b => ns[a].id # ns[b].id

\* C19: if every source has pairwise distinct node ids, the node ids of the
\* unified config are pairwise distinct, every embedded node's id is
\* <source>-<original id> and its metadata.parent is the id of its source's
\* root.
C19_NodeIdsDistinct ==
    (Merged /\ DistinctWithinSources) =>
        LET ns == unified[1].nodes
        IN  /\ \A a, b \in DOMAIN ns : a # b => ns[a].id # ns[b].id
            /\ \A i \in DOMAIN sources :
                  LET own == Get(sources[i], "nodes", <<>>)
                  IN  \A k \in DOMAIN own :
                        /\ ns[NodesBefore(i) + 1 + k].id = SourceName(i) \o "-" \o own[k].id
                        /\ ns[NodesBefore(i) + 1 + k].metadata.parent = RootId(i)
                        /\ ns[NodesBefore(i) + 1].id = RootId(i)

\* every edge of every source joins two nodes of that source
EdgesWithinSources ==
    \A i \in DOMAIN sources :
        LET ids == {n.id : n \in Range(Get(sources[i], "nodes", <<>>))}
        IN  \A e \in Range(Get(sources[i], "edges", <<>>)) :
              e.from \in ids /\ e.to \in ids

\* C20: if every source's edges join nodes of that source, every edge of the
\* unified config, inferred or not, joins two nodes of the unified config.
C20_EdgesReferToNodes ==
    (Merged /\ EdgesWithinSources) =>
        LET ids == {n.id : n \in Range(unified[1].nodes)}
        IN  \A e \in Range(unified[1].edges) : e.from \in ids /\ e.to \in ids

\* a unified config with an edge taken over from a source and an inferred edge
C20_Witness ==
    /\ Merged
    /\ EdgesWithinSources
    /\ InputEdgeCount(1) > 0
    /\ InferredEdges # {}
    /\ \E e \in Range(unified[1].edges) : e.id = "app-e" /\ e.to = "app-n"

\* source i has both its nodes key and its edges key
Complete(i) == "nodes" \in DOMAIN sources[i] /\ "edges" \in DOMAIN sources[i]

\* the number of entries of the list at `key` over the complete sources i..
RECURSIVE CompleteCount(_, _)
CompleteCount(key, i) ==
    IF i > Len(sources) THEN 0
    ELSE (IF Complete(i) THEN Len(sources[i][key]) ELSE 0) + CompleteCount(key, i + 1)

\* the roots of the first unified config: the nodes synthesised for a source
UnifiedRoots ==
    {k \in DOMAIN unified[1].nodes : "nodeId" \in DOMAIN Get(unified[1].nodes[k], "metadata", EmptyDict)}

\* the edges of the first unified config that were not inferred
TakenOverEdges ==
    {k \in DOMAIN unified[1].edges :
       "reason" \notin DOMAIN Get(unified[1].edges[k], "metadata", EmptyDict)}

\* C21: a source without its nodes key or without its edges key does not
\* abort the merge and is dropped: the unified config has a root, the nodes
\* and the edges of the complete sources only, and no inferred edge joins a
\* node that goes by the name of a dropped source.
C21_IncompleteSourceDropped ==
    (pc = "merged" /\ \A i \in DOMAIN sources : sources[i] \notin MalformedConfigs) =>
        /\ Merged
        /\ Cardinality(UnifiedRoots) = Cardinality({i \in DOMAIN sources : Complete(i)})
        /\ Len(unified[1].nodes) = Cardinality(UnifiedRoots) + CompleteCount("nodes", 1)
        /\ Cardinality(TakenOverEdges) = CompleteCount("edges", 1)
        /\ \A i \in DOMAIN sources :
              ~Complete(i) =>
                  \A e \in InferredEdges :
                      \A n \in Range(unified[1].nodes) :
                          n.id \in {e.from, e.to} => Get(n, "name", "") # SourceName(i)

\* C22: create_unified_config returns a unified config and never raises,
\* whatever the loaded source configs.
C22_MergeNeverRaises ==
    /\ ~merge_raised
    /\ pc = "merged" => Merged

\* the ids, the positions, the edge endpoints and the statistics of a
\* unified config
Outline(u) ==
    [ids |-> [k \in DOMAIN u.nodes |-> u.nodes[k].id],
     positions |-> [k \in DOMAIN u.nodes |-> u.nodes[k].position],
     endpoints |-> [k \in DOMAIN u.edges |-> <<u.edges[k].from, u.edges[k].to>>],
     totalNodes |-> u.stats.totalNodes,
     totalEdges |-> u.stats.totalEdges,
     statusCounts |-> u.stats.statusCounts]

\* C23: a second run of the merge on the same aggregator over the same
\* sources gives the same node ids, node positions, edge endpoints,
\* totalNodes, totalEdges and status histogram as the first, and a run leaves
\* the loaded source configs as they were loaded.
C23_MergeIdempotent ==
    /\ Len(unified) >= 2 => Outline(unified[2]) = Outline(unified[1])
    /\ \A i \in DOMAIN all_configs :
          \E j \in DOMAIN sources : all_configs[i] = sources[j]

\* ceil(sqrt(n))
CeilSqrt(n) == CHOOSE k \in 0..n : k * k >= n /\ (k = 0 \/ (k - 1) * (k - 1) < n)

\* the position of the root of source i in the first unified config
RootPosition(i) == unified[1].nodes[NodesBefore(i) + 1].position

\* the grid cell of source i: its root's offset from the root of the first
\* source, in cells
Column(i) == (RootPosition(i).x.n - RootPosition(1).x.n) \div GridStep
Row(i) == (RootPosition(i).z.n - RootPosition(1).z.n) \div GridStep

\* C30: for N sources, source number idx is in column idx mod ceil(sqrt(N))
\* and row idx div ceil(sqrt(N)), distinct sources are in distinct cells, and
\* an embedded node's x and z are its own scaled by 0.3 and offset by the
\* position of its source.
C30_LayoutGrid ==
    (pc = "aggregator" /\ Merged) =>
        LET width == CeilSqrt(Len(sources))
        IN  /\ \A i \in DOMAIN sources :
                  /\ Column(i) = (i - 1) % width
                  /\ Row(i) = (i - 1) \div width
            /\ \A i, j \in DOMAIN sources :
                  i # j => <<Column(i), Row(i)>> # <<Column(j), Row(j)>>
            /\ \A i \in DOMAIN sources :
                  LET own == sources[i].nodes
                  IN  \A k \in DOMAIN own :
                        LET was == Get(own[k], "position", [x |-> Zero, z |-> Zero])
                            now == unified[1].nodes[NodesBefore(i) + 1 + k].position
                        IN  /\ now.x = RatAdd(RootPosition(i).x, RatMul(was.x, Rat(3, 10)))
                            /\ now.z = RatAdd(RootPosition(i).z, RatMul(was.z, Rat(3, 10)))

\* the check of this rule has run on the report
Checked(rule_id) == pc = "checked" /\ rule_result[1].rule_id = rule_id

\* the assets and the edges of the report
GivenAssets == Get(execution_data, "assets", <<>>)
GivenEdges == Get(execution_data, "edges", <<>>)

\* the asset ids of the report
KnownIds == {GivenAssets[i].id : i \in DOMAIN GivenAssets}

\* the edge endpoints that are not the id of an asset
UnresolvedEndpoints ==
    {p \in (DOMAIN GivenEdges) \X {"from", "to"} : GivenEdges[p[1]][p[2]] \notin KnownIds}

\* the dependency ids an asset declares
DeclaredDependencies(i) ==
    LET deps == Get(Get(GivenAssets[i], "dependencies", EmptyDict),
                    "ai_validated_dependencies", <<>>)
    IN  {<<i, j, deps[j].dependency_id>> : j \in DOMAIN deps}

\* the declared dependency ids that are not the id of an asset
UnresolvedDependencies ==
    {d \in UNION {DeclaredDependencies(i) : i \in DOMAIN GivenAssets} : d[3] \notin KnownIds}

\* max(0, 1 - issues/total)
ClaimedScore(issues, total) ==
    IF issues >= total THEN Zero ELSE Rat(total - issues, total)

\* C24: with the default registry the dependency-validity check returns a
\* result that is not an error, with the score max(0, 1 - issues/(edges +
\* assets)), issues being the edge endpoints and the declared dependency ids
\* that are not the id of an asset; when every reference resolves the score is
\* 1 and the status passed.
C24_DependencyValidityScore ==
    (Checked("semantic_dependency_validity") /\ Len(GivenEdges) + Len(GivenAssets) > 0) =>
        LET issues == Cardinality(UnresolvedEndpoints) + Cardinality(UnresolvedDependencies)
        IN  /\ rule_result[1].status # ERROR
            /\ rule_result[1].score
                  = ClaimedScore(issues, Len(GivenEdges) + Len(GivenAssets))
            /\ issues = 0 => rule_result[1].status = PASSED /\ rule_result[1].score = One

\* the state and the progress a status stands for: those it gives, or for a
\* legacy dict or a word those of its normal form
StatusStateOf(status) ==
    IF status.kind = "dict" /\ "state" \in DOMAIN status.d
    THEN Get(status.d, "state", "unknown")
    ELSE normalize_status(status).state
StatusProgressOf(status) ==
    IF status.kind = "dict" /\ "state" \in DOMAIN status.d
    THEN Get(status.d, "progress", 0)
    ELSE normalize_status(status).progress

\* the flags raised on the status of an asset
StatusFlags(i) ==
    LET state == StatusStateOf(GivenAssets[i].status)
        progress == StatusProgressOf(GivenAssets[i].status)
    IN  {flag \in {"range", "built", "backlogged"} :
           \/ flag = "range" /\ (progress < 0 \/ progress > 100)
           \/ flag = "built" /\ state = "built" /\ progress < 100
           \/ flag = "backlogged" /\ state = "backlogged" /\ progress > 0}

RECURSIVE FlagCount(_)
FlagCount(i) ==
    IF i > Len(GivenAssets) THEN 0 ELSE Cardinality(StatusFlags(i)) + FlagCount(i + 1)

\* C26: on assets whose statuses are in any of the four shapes the
\* status-consistency check returns a result that is not an error, with the
\* score max(0, 1 - issues/assetCount), an issue being counted for an asset
\* with progress outside [0, 100], for one built with progress < 100 and for
\* one backlogged with progress > 0.
C26_StatusConsistencyScore ==
    (Checked("semantic_status_consistency") /\ GivenAssets # <<>>) =>
        /\ rule_result[1].status # ERROR
        /\ rule_result[1].score = ClaimedScore(FlagCount(1), Len(GivenAssets))

\* the type of the asset with this id
TypeOf(id) == (CHOOSE a \in Range(GivenAssets) : a.id = id).type

\* the component types of the reports and of the compatibility matrix
ComponentTypes ==
    DOMAIN compatible_types \cup {"component.ui", "library.other", ""}

\* the issues of an edge: a self-reference, a conflict between assets of
\* incompatible types, a dependency of strength below 0.1
EdgeFlags(e) ==
    {flag \in {"self", "conflict", "weak"} :
       \/ flag = "self" /\ e.from = e.to
       \/ /\ flag = "conflict"
          /\ e.type = "conflictsWith"
          /\ e.from \in KnownIds /\ e.to \in KnownIds
          /\ ~_are_types_compatible(TypeOf(e.from), TypeOf(e.to))
       \/ flag = "weak" /\ e.type = "dependsOn" /\ RatLt(e.strength, Rat(1, 10))}

RECURSIVE EdgeFlagCount(_)
EdgeFlagCount(i) ==
    IF i > Len(GivenEdges) THEN 0
    ELSE Cardinality(EdgeFlags(GivenEdges[i])) + EdgeFlagCount(i + 1)

\* C27: the relationship-coherence check counts as issues every
\* self-referencing edge, be its endpoint the id of an asset or not, every
\* conflictsWith edge between assets of incompatible types, the
\* compatibility being symmetric, and every dependsOn edge of strength below
\* 0.1.
C27_CoherenceIssues ==
    /\ \A a, b \in ComponentTypes : _are_types_compatible(a, b) = _are_types_compatible(b, a)
    /\ (Checked("semantic_relationship_coherence") /\ GivenEdges # <<>>) =>
          rule_result[1].score = ClaimedScore(EdgeFlagCount(1), Len(GivenEdges))

\* the value a performance check measures and the threshold of its rule
MeasuredValue ==
    IF rule_result[1].rule_id = "performance_response_time"
    THEN Get(Get(Get(execution_data, "workflow_results", EmptyDict),
                 "execution_summary", EmptyDict), "total_execution_time", Zero)
    ELSE Rat(payload_size, BytesPerMB)
RuleLimit == RuleThreshold[rule_result[1].rule_id][1]

\* C28: a performance check returns score 1 and passed for a value at or
\* below the threshold of its rule; for a value above it returns a warning
\* with a score that falls in proportion to the overshoot, strictly between 0
\* and 1 until the value is twice the threshold.
C28_PerformanceScore ==
    (Checked("performance_response_time") \/ Checked("performance_memory_usage")) =>
        IF RatLeq(MeasuredValue, RuleLimit)
        THEN rule_result[1].status = PASSED /\ rule_result[1].score = One
        ELSE /\ rule_result[1].status = WARNING
             /\ RatLt(rule_result[1].score, One)
             /\ RatLt(MeasuredValue, RatMul(Rat(2, 1), RuleLimit))
                   => RatLt(Zero, rule_result[1].score)

\* the report meets the conditions of every check: it has assets, every
\* status is consistent, every reference resolves, no edge is an issue, and
\* it is fast and small enough
MeetsEveryCheck ==
    /\ GivenAssets # <<>>
    /\ \A i \in DOMAIN GivenAssets :
          GivenAssets[i].status.kind = "dict" /\ StatusFlags(i) = {}
    /\ UnresolvedEndpoints = {}
    /\ UnresolvedDependencies = {}
    /\ \A i \in DOMAIN GivenEdges : EdgeFlags(GivenEdges[i]) = {}
    /\ RatLeq(Get(Get(Get(execution_data, "workflow_results", EmptyDict),
                      "execution_summary", EmptyDict), "total_execution_time", Zero),
              RuleThreshold["performance_response_time"][1])
    /\ RatLeq(Rat(payload_size, BytesPerMB), RuleThreshold["performance_memory_usage"][1])
    /\ \A r \in RuleIds \ CheckedRules : outcomes[r] = NothingWrong

\* C25: with the default registries the validation of a report that meets
\* the conditions of every check returns the overall status passed with all
\* six quality gates passed.
C25_PassedReachable ==
    (pc = "data_validated" /\ MeetsEveryCheck) =>
        /\ report[1].overall_status = PASSED
        /\ report[1].total_quality_gates = 6
        /\ report[1].quality_gates_passed = 6

(***************************************************************************)
(* The order in which the results arrive                                   *)
(***************************************************************************)
Synthesized == pc = "fan_in"

\* the results of the run in every order
Arrivals ==
    {[i \in DOMAIN validation_results |-> validation_results[f[i]]] :
        f \in Permutations(DOMAIN validation_results)}

\* the figures of the report are those of the results taken in the order p
SameFigures(p) ==
    LET gates == EvaluateGates(QualityGates, p)
    IN  /\ gates = quality_gate_results
        /\ _calculate_overall_status(p, gates) = report[1].overall_status
        /\ FloatReliabilityScore(p, gates) = report[1].reliability_score
        /\ FloatConfidenceLevel(p, gates) = report[1].confidence_level

====
